---- MODULE Spec2Model ----
(***************************************************************************)
(* Verification model of the resilient request gateway of the TOEFL        *)
(* Speaking Master backend: the sliding-window rate limiter                *)
(* (middleware/rate_limiter.py), the retrying Azure OpenAI client          *)
(* (services/openai_client.py) and the audio cleanup utilities             *)
(* (utils/audio_cleanup.py).  Each subsystem has its own specification     *)
(* over the shared variable tuple.                                         *)
(***************************************************************************)
EXTENDS Integers, Sequences, FiniteSets, TLC

VARIABLES
    \* ---- rate limiter (RateLimitMiddleware) ----
    clock,            \* time.time(), in whole seconds
    capacity,         \* self.requests_per_minute
    request_history,  \* self.request_history: identity -> list of timestamps
    reqs,             \* one record per in-flight dispatch() coroutine; its request
                      \* field holds the request up to the coroutine's next step
    running,          \* the dispatch() coroutine the event loop is running, 0 when none
    served,           \* number of dispatch() calls started so far
    admitted,         \* history: identity -> every admission time, never evicted
    wasRejected,      \* history: identities that received a 429
    rejectedAt,       \* history: identity -> time of its latest 429, NoHeader when none
    \* ---- OpenAI client (one decorated call) ----
    call,             \* the arguments of the call and the provider's behaviour
    cpc,              \* "idle" | "attempt" | "done"
    attempts,         \* tenacity's attempt_number: runs of the function body so far
    invocations,      \* calls of the provider's API made by the call so far
    waits,            \* backoff waits slept so far, in seconds
    result,           \* what the call hands to its caller
    \* ---- audio cleanup ----
    fs,               \* path -> "absent" | "file" | "dir"
    locked,           \* files whose unlink raises PermissionError
    mtime,            \* path -> st_mtime of the file in seconds (0 for no file)
    now,              \* time.time() of the cleanup side, in seconds
    sessions,         \* id -> task type and "none" | "unsaved" | "generated" | "scored" |
                      \* "deleted"
    workers,          \* one record per running cleanup call
    sweep,            \* the state of cleanup_old_audio_files
    \* ---- HTTPS redirect (HTTPSRedirectMiddleware) ----
    environ,          \* os.environ["ENVIRONMENT"]: <<>> when unset, else <<value>>
    hreq,             \* the request in HTTPSRedirectMiddleware.dispatch and its locals
    hresp,            \* the response dispatch returns
    \* ---- failures on their way to the client ----
    efail,            \* the failure being processed: where it arose and as what
    eexc,             \* the exception in flight
    echain,           \* the layers it has still to cross, innermost first
    eresp,            \* the response built for it, on record until the next failure
    \* ---- scoring (routers/scoring.py, ScoringService, OpenAIClient) ----
    sreq,             \* the scoring request: its route, its empty and its white-space
                      \* inputs, the model's reply
    spc,              \* "idle" | "inputs" | "client" | "service" | "store" | "cleanup" | "respond" |
                      \* "done"
    sresult,          \* what the service returned to the route handler
    stored,           \* the score columns of the practice session after db.commit()
    sresp,            \* the response of the route
    \* ---- sanitizer (OpenAIClient._clean_json_response) ----
    gpt_response,     \* the raw reply of the model
    cleaned_response, \* what _clean_json_response returns for it
    jpc,              \* "raw" | "cleaned"
    \* ---- list-typed fields of a generated record ----
    list_data,        \* the operation and the list-typed fields of the record it parses
    list_result,      \* what the operation raised and the lists it returned
    lpc,              \* "idle" | "parse" | "done"
    \* ---- construction of an exception of exceptions.py ----
    exc_args,         \* the class and the arguments of the constructor call
    raised_exc,       \* the instance it built
    \* ---- tenacity's wait policy of a decorated method ----
    retry_state,      \* the method's kind and tenacity's attempt_number
    slept,            \* the waits before the retries of attempts 1 .. attempt_number
    \* ---- a scoring route and the per-session cleanup ----
    request_problem_id,\* request.problem_id: the id of the practice session
    committed,        \* db.commit() of the request has succeeded
    cleanup_calls,    \* history: the calls of schedule_audio_cleanup by the request
    \* ---- structured generation (OpenAIClient.generate_problem) ----
    provider_reply,   \* what call_gpt4 did: the raw text it returned, or that it raised
    gen_pc,           \* "idle" | "call" | "parse" | "done"
    provider_calls,   \* calls of call_gpt4 made by the operation so far
    problem_data,     \* what generate_problem returned or raised
    \* ---- the Task 1 archive (routers/task1_archive.py) ----
    archive_resp      \* the response of the last DELETE /api/task1-archive/questions/{id}

vars == <<clock, capacity, request_history, reqs, running, served, admitted, wasRejected,
          rejectedAt,
          call, cpc, attempts, invocations, waits, result,
          fs, locked, mtime, now, sessions, workers, sweep,
          environ, hreq, hresp,
          efail, eexc, echain, eresp,
          sreq, spc, sresult, stored, sresp,
          gpt_response, cleaned_response, jpc,
          list_data, list_result, lpc,
          exc_args, raised_exc,
          retry_state, slept,
          request_problem_id, committed, cleanup_calls,
          provider_reply, gen_pc, provider_calls, problem_data,
          archive_resp>>

limiterVars ==
    <<clock, capacity, request_history, reqs, running, served, admitted, wasRejected,
      rejectedAt>>
clientVars == <<call, cpc, attempts, invocations, waits, result>>
cleanupVars == <<fs, locked, mtime, now, sessions, workers, sweep>>
httpsVars == <<environ, hreq, hresp>>
errorVars == <<efail, eexc, echain, eresp>>
scoringVars == <<sreq, spc, sresult, stored, sresp>>
sanitizerVars == <<gpt_response, cleaned_response, jpc>>
recordVars == <<list_data, list_result, lpc>>
exceptionVars == <<exc_args, raised_exc>>
backoffVars == <<retry_state, slept>>
flowVars == <<request_problem_id, committed, cleanup_calls>>
generationVars == <<provider_reply, gen_pc, provider_calls, problem_data>>
archiveVars == <<archive_resp>>

\* What the actions of one component leave alone.
notLimiterVars == <<clientVars, cleanupVars, httpsVars, errorVars, scoringVars, sanitizerVars, recordVars, exceptionVars, backoffVars, flowVars, generationVars, archiveVars>>
notClientVars == <<limiterVars, cleanupVars, httpsVars, errorVars, scoringVars, sanitizerVars, recordVars, exceptionVars, backoffVars, flowVars, generationVars, archiveVars>>
notCleanupVars == <<limiterVars, clientVars, httpsVars, errorVars, scoringVars, sanitizerVars, recordVars, exceptionVars, backoffVars, flowVars, generationVars, archiveVars>>
notHttpsVars == <<limiterVars, clientVars, cleanupVars, errorVars, scoringVars, sanitizerVars, recordVars, exceptionVars, backoffVars, flowVars, generationVars, archiveVars>>
notErrorVars == <<limiterVars, clientVars, cleanupVars, httpsVars, scoringVars, sanitizerVars, recordVars, exceptionVars, backoffVars, flowVars, generationVars, archiveVars>>
notScoringVars == <<limiterVars, clientVars, cleanupVars, httpsVars, errorVars, sanitizerVars, recordVars, exceptionVars, backoffVars, generationVars, archiveVars>>
notSanitizerVars == <<limiterVars, clientVars, cleanupVars, httpsVars, errorVars, scoringVars, recordVars, exceptionVars, backoffVars, flowVars, generationVars, archiveVars>>
notRecordVars ==
    <<limiterVars, clientVars, cleanupVars, httpsVars, errorVars, scoringVars, sanitizerVars, exceptionVars, backoffVars, flowVars, generationVars, archiveVars>>
notExceptionVars ==
    <<limiterVars, clientVars, cleanupVars, httpsVars, errorVars, scoringVars, sanitizerVars, recordVars, backoffVars, flowVars, generationVars, archiveVars>>
notBackoffVars ==
    <<limiterVars, clientVars, cleanupVars, httpsVars, errorVars, scoringVars, sanitizerVars, recordVars, exceptionVars, flowVars, generationVars, archiveVars>>
\* What the cleanup call of a scoring route leaves alone, the files apart.
notScoringNorCleanupVars == <<limiterVars, clientVars, httpsVars, errorVars, sanitizerVars, recordVars, exceptionVars, backoffVars, generationVars, archiveVars>>
notGenerationVars ==
    <<limiterVars, clientVars, cleanupVars, httpsVars, errorVars, scoringVars, sanitizerVars, recordVars, exceptionVars, backoffVars, flowVars, archiveVars>>
\* What a request to the archive leaves alone, the session rows apart.
notArchiveNorCleanupVars ==
    <<limiterVars, clientVars, httpsVars, errorVars, scoringVars, sanitizerVars, recordVars, exceptionVars, backoffVars, flowVars, generationVars>>

(***************************************************************************)
(* Bounds of the model.                                                    *)
(***************************************************************************)
MaxCapacity == 2
MaxTime == 62
MaxRequests == 3
ScriptLen == 3
AttemptCap == 5

Slots == {1, 2}
TickSteps == {30, 31}
HandlerStatuses == {200, 500}

(***************************************************************************)
(* Rate limiter.                                                           *)
(***************************************************************************)
window_size == 60
HTTP_429_TOO_MANY_REQUESTS == 429
NoHeader == -1

BypassPathsRootOnly == {"/"}
BypassPaths == {"/", "/health", "/docs", "/openapi.json"}
Paths == {"/", "/health", "/docs", "/openapi.json", "/api/scoring/evaluate"}

\* A header value is a text: a sequence of fragments, <<>> when the header is absent
\* (request.headers.get(name, "")).
NoValue == <<>>
Addresses == {"1.1.1.1", "2.2.2.2"}

\* The headers and the peer address of the inbound requests.
HeaderSets ==
    {[authorization |-> <<"Bearer ", "tokA">>, x_forwarded_for |-> NoValue,
      client_host |-> "1.1.1.1"],
     [authorization |-> <<"Bearer ", "tokA">>, x_forwarded_for |-> <<"1.1.1.1">>,
      client_host |-> "2.2.2.2"],
     [authorization |-> NoValue, x_forwarded_for |-> <<" ", "1.1.1.1", ",", "2.2.2.2">>,
      client_host |-> "2.2.2.2"],
     [authorization |-> NoValue, x_forwarded_for |-> NoValue, client_host |-> "1.1.1.1"],
     [authorization |-> <<"Basic ", "tokA">>, x_forwarded_for |-> NoValue,
      client_host |-> "1.1.1.1"],
     [authorization |-> <<"Bearer ", "ip:", "1.1.1.1">>, x_forwarded_for |-> NoValue,
      client_host |-> "2.2.2.2"],
     [authorization |-> <<"Bearer ", "ip:", "1.1.1.1">>, x_forwarded_for |-> NoValue,
      client_host |-> "1.1.1.1"]}
Requests ==
    {[path |-> p, authorization |-> h.authorization,
      x_forwarded_for |-> h.x_forwarded_for, client_host |-> h.client_host] :
        p \in Paths, h \in HeaderSets}
NoRequest ==
    [path |-> "", authorization |-> NoValue, x_forwarded_for |-> NoValue,
     client_host |-> "None"]

\* text.split(",")[0]: the fragments before the first comma.
RECURSIVE FirstField(_)
FirstField(text) ==
    IF text = <<>> \/ Head(text) = "," THEN <<>>
    ELSE <<Head(text)>> \o FirstField(Tail(text))

\* text.strip(): without the blanks at both ends.
RECURSIVE Strip(_)
Strip(text) ==
    IF text = <<>> THEN <<>>
    ELSE IF Head(text) = " " THEN Strip(Tail(text))
    ELSE IF text[Len(text)] = " " THEN Strip(SubSeq(text, 1, Len(text) - 1))
    ELSE text

\* _get_user_identifier: the bearer token, else "ip:" and the first hop of
\* X-Forwarded-For, else "ip:" and the peer address.
get_user_identifier(request) ==
    LET auth_header == request.authorization
    IN  IF auth_header # NoValue /\ Head(auth_header) = "Bearer "
        THEN Tail(auth_header)
        ELSE LET forwarded_for == request.x_forwarded_for
                 client_ip == IF forwarded_for # NoValue
                              THEN Strip(FirstField(forwarded_for))
                              ELSE IF request.client_host # "None"
                              THEN <<request.client_host>>
                              ELSE <<"unknown">>
             IN  <<"ip:">> \o client_ip

Identities == {get_user_identifier(q) : q \in Requests}

Max(a, b) == IF a >= b THEN a ELSE b
Min(a, b) == IF a <= b THEN a ELSE b

\* _clean_old_requests: keep the timestamps ts with ts > current_time - window_size.
CleanKeepAll(history, current_time) == history
CleanKeepBoundary(history, current_time) ==
    SelectSeq(history, LAMBDA ts : ts >= current_time - window_size)
clean_old_requests(history, current_time) ==
    LET cutoff_time == current_time - window_size
        Keep(ts) == ts > cutoff_time
    IN  SelectSeq(history, Keep)

\* _is_rate_limited, after the cleaning: <<is_limited, remaining>>.
NeverLimited(cleaned, limit) == <<FALSE, Max(0, limit - Len(cleaned))>>
IsRateLimitedOffByOne(cleaned, limit) ==
    <<Len(cleaned) > limit, Max(0, limit - Len(cleaned))>>
is_rate_limited(cleaned, limit) ==
    LET request_count == Len(cleaned)
    IN  <<request_count >= limit, Max(0, limit - request_count)>>

\* dispatch, line 152: record this request.
RecordNothing(cleaned, current_time) == cleaned
record_request(cleaned, current_time) == Append(cleaned, current_time)

IdleReq ==
    [pc |-> "idle", request |-> NoRequest, user_id |-> <<>>, current_time |-> 0,
     bypass |-> FALSE, remaining |-> 0, preLen |-> 0, preOldest |-> 0,
     status |-> 0, retryAfter |-> NoHeader, hLimit |-> NoHeader,
     hRemaining |-> NoHeader, hReset |-> NoHeader]

\* dispatch is a coroutine: the event loop runs it without interruption from one
\* await to the next.  Lines 127-152 hold no await.
AwaitBeforeRecording == TRUE
AwaitBetweenCheckAndRecord == FALSE

\* dispatch, lines 123-149: the bypass test, the identity, the clock, the check and
\* the 429 response.
Dispatch(r, request) ==
    /\ running = 0
    /\ reqs[r].pc = "idle"
    /\ served < MaxRequests
    /\ served' = served + 1
    /\ IF request.path \in BypassPaths
       THEN /\ reqs' = [reqs EXCEPT ![r] =
                           [IdleReq EXCEPT !.pc = "handler", !.request = request,
                                           !.bypass = TRUE]]
            /\ UNCHANGED <<request_history, wasRejected, rejectedAt, running>>
       ELSE LET user_id == get_user_identifier(request)
                current_time == clock
                before == request_history[user_id]
                cleaned == clean_old_requests(before, current_time)
                lim == is_rate_limited(cleaned, capacity)
                base == [IdleReq EXCEPT !.request = request,
                                        !.user_id = user_id,
                                        !.current_time = current_time,
                                        !.remaining = lim[2],
                                        !.preLen = Len(before),
                                        !.preOldest = IF before = <<>> THEN 0 ELSE before[1]]
            IN  /\ request_history' = [request_history EXCEPT ![user_id] = cleaned]
                /\ IF lim[1]
                   THEN /\ reqs' = [reqs EXCEPT ![r] =
                                       [base EXCEPT !.pc = "done",
                                                    !.status = HTTP_429_TOO_MANY_REQUESTS,
                                                    !.retryAfter = window_size,
                                                    !.hLimit = capacity,
                                                    !.hRemaining = 0,
                                                    !.hReset = current_time + window_size]]
                        /\ wasRejected' = wasRejected \cup {user_id}
                        /\ rejectedAt' = [rejectedAt EXCEPT ![user_id] = current_time]
                        /\ UNCHANGED running
                   ELSE /\ reqs' = [reqs EXCEPT ![r] = [base EXCEPT !.pc = "checked"]]
                        /\ running' = IF AwaitBetweenCheckAndRecord THEN 0 ELSE r
                        /\ UNCHANGED <<wasRejected, rejectedAt>>
    /\ UNCHANGED <<clock, capacity, admitted>>
    /\ UNCHANGED notLimiterVars

\* dispatch, lines 151-155: record this request, then await call_next.
Record(r) ==
    /\ running \in {0, r}
    /\ reqs[r].pc = "checked"
    /\ LET user_id == reqs[r].user_id
           current_time == reqs[r].current_time
       IN  /\ request_history' = [request_history EXCEPT ![user_id] =
                                     record_request(@, current_time)]
           /\ admitted' = [admitted EXCEPT ![user_id] = Append(@, current_time)]
    /\ reqs' = [reqs EXCEPT ![r] = [@ EXCEPT !.pc = "handler", !.request = NoRequest]]
    /\ running' = 0
    /\ UNCHANGED <<clock, capacity, served, wasRejected, rejectedAt>>
    /\ UNCHANGED notLimiterVars

\* call_next returns; dispatch adds the rate-limit headers (lines 155-162).
CallNextReturns(r, st) ==
    /\ running = 0
    /\ reqs[r].pc = "handler"
    /\ reqs' = [reqs EXCEPT ![r] =
                    IF reqs[r].bypass
                    THEN [@ EXCEPT !.pc = "done", !.request = NoRequest, !.status = st]
                    ELSE [@ EXCEPT !.pc = "done", !.status = st,
                                   !.hLimit = capacity,
                                   !.hRemaining = reqs[r].remaining - 1,
                                   !.hReset = reqs[r].current_time + window_size]]
    /\ UNCHANGED <<clock, capacity, request_history, running, served, admitted, wasRejected,
                   rejectedAt>>
    /\ UNCHANGED notLimiterVars

\* call_next raises: the handler let an exception escape that no handler of the
\* exception middleware takes (main.py line 53 registers the catch-all outside the
\* middlewares).  Line 155 has no try, so lines 158-160 do not run and the 500 of
\* generic_exception_handler leaves without the rate-limit headers.
CallNextRaises(r) ==
    /\ running = 0
    /\ reqs[r].pc = "handler"
    /\ reqs' = [reqs EXCEPT ![r] =
                    [@ EXCEPT !.pc = "done", !.request = NoRequest, !.status = 500]]
    /\ UNCHANGED <<clock, capacity, request_history, running, served, admitted, wasRejected,
                   rejectedAt>>
    /\ UNCHANGED notLimiterVars

\* The response has been sent; the coroutine is gone.
ResponseSent(r) ==
    /\ running = 0
    /\ reqs[r].pc = "done"
    /\ reqs' = [reqs EXCEPT ![r] = IdleReq]
    /\ UNCHANGED <<clock, capacity, request_history, running, served, admitted, wasRejected,
                   rejectedAt>>
    /\ UNCHANGED notLimiterVars

\* Time passes.
Tick(d) ==
    /\ clock + d <= MaxTime
    /\ clock' = clock + d
    /\ UNCHANGED <<capacity, request_history, reqs, running, served, admitted, wasRejected,
                   rejectedAt>>
    /\ UNCHANGED notLimiterVars

(***************************************************************************)
(* OpenAI client: call_gpt4, transcribe_audio and generate_speech, each    *)
(* wrapped by tenacity's @retry.                                           *)
(***************************************************************************)
Kinds == {"generate", "transcribe", "synthesize"}

\* What one invocation of the provider does.
ProviderErrors == {"RateLimitError", "APITimeoutError", "APIError", "OpenAIError", "Exception"}
ProviderOutcomes == {"ok"} \cup ProviderErrors
AudioInputs == {"empty", "speech"}

\* isinstance(e, cls) over the exception classes the client handles.
Bases(e) ==
    CASE e = "RateLimitError" -> {"RateLimitError", "APIError", "OpenAIError", "Exception"}
      [] e = "APITimeoutError" -> {"APITimeoutError", "APIError", "OpenAIError", "Exception"}
      [] e = "APIError" -> {"APIError", "OpenAIError", "Exception"}
      [] e = "OpenAIError" -> {"OpenAIError", "Exception"}
      [] e = "ExternalAPIError" -> {"ExternalAPIError", "TOEFLAppException", "Exception"}
      [] e = "SpeechProcessingError" -> {"SpeechProcessingError", "TOEFLAppException", "Exception"}
      [] e \in {"AuthenticationError", "ProblemGenerationError", "ScoringError",
                "RateLimitExceededError", "ValidationError"} ->
             {e, "TOEFLAppException", "Exception"}
      [] e = "TOEFLAppException" -> {"TOEFLAppException", "Exception"}
      [] e = "HTTPException" -> {"HTTPException", "Exception"}
      [] e = "RequestValidationError" -> {"RequestValidationError", "Exception"}
      [] e = "JSONDecodeError" -> {"JSONDecodeError", "ValueError", "Exception"}
      [] OTHER -> {e, "Exception"}
IsInstance(e, cls) == cls \in Bases(e)

\* stop=stop_after_attempt(n)
stop_max_attempt_number(kind) == IF kind = "transcribe" THEN 2 ELSE 3
stop_after_attempt(kind, attempt_number) == attempt_number >= stop_max_attempt_number(kind)

\* wait=wait_exponential(multiplier=1, min=.., max=..)
wait_multiplier == 1
wait_min(kind) == IF kind = "transcribe" THEN 3 ELSE 2
wait_max(kind) == IF kind = "transcribe" THEN 15 ELSE 10
WaitUncapped(kind, attempt_number) == wait_multiplier * 2 ^ (attempt_number - 1)
wait_exponential(kind, attempt_number) ==
    LET exp == 2 ^ (attempt_number - 1)
    IN  Max(Max(0, wait_min(kind)), Min(wait_multiplier * exp, wait_max(kind)))

\* retry=retry_if_exception_type((...)): applied to the exception that leaves the body.
RetryTypes(kind) ==
    IF kind = "transcribe"
    THEN {"RateLimitError", "APITimeoutError"}
    ELSE {"RateLimitError", "APITimeoutError", "APIError"}
retry_if_exception_type(kind, exc) == \E cls \in RetryTypes(kind) : IsInstance(exc, cls)

\* tenacity's decision after a failed attempt: sleep and run the body again?
ShouldRetryNeverStops(kind, exc, attempt_number) == TRUE
ShouldRetryAnyException(kind, exc, attempt_number) == ~stop_after_attempt(kind, attempt_number)
ShouldRetry(kind, exc, attempt_number) ==
    /\ retry_if_exception_type(kind, exc)
    /\ ~stop_after_attempt(kind, attempt_number)

\* The except clauses of the three bodies: the first clause whose class the raised
\* exception is an instance of decides what leaves the body.
ExceptWithoutCatchAll(kind, e) ==
    IF IsInstance(e, "OpenAIError")
    THEN [exc |-> IF kind = "transcribe" THEN "SpeechProcessingError" ELSE "ExternalAPIError",
          service |-> IF kind = "generate" THEN "OpenAI"
                      ELSE IF kind = "synthesize" THEN "OpenAI TTS" ELSE "",
          clause |-> "OpenAIError"]
    ELSE [exc |-> e, service |-> "", clause |-> "none"]
except_clauses(kind, e) ==
    LET clause == IF IsInstance(e, "RateLimitError") THEN "RateLimitError"
                  ELSE IF IsInstance(e, "APITimeoutError") THEN "APITimeoutError"
                  ELSE IF IsInstance(e, "APIError") THEN "APIError"
                  ELSE IF IsInstance(e, "OpenAIError") THEN "OpenAIError"
                  ELSE "Exception"
    IN  CASE kind = "generate" ->
               [exc |-> "ExternalAPIError", service |-> "OpenAI", clause |-> clause]
          [] kind = "synthesize" ->
               [exc |-> "ExternalAPIError", service |-> "OpenAI TTS", clause |-> clause]
          [] kind = "transcribe" ->
               [exc |-> "SpeechProcessingError", service |-> "", clause |-> clause]

\* One run of the function body: does it invoke the provider, and what leaves it.
Body(kind, audio, outcome) ==
    IF kind = "transcribe" /\ audio = "empty"
    THEN \* len(audio_file) == 0: SpeechProcessingError raised inside the try block
         [invoked |-> FALSE, returned |-> FALSE,
          raised |-> except_clauses(kind, "SpeechProcessingError")]
    ELSE IF outcome = "ok"
    THEN [invoked |-> TRUE, returned |-> TRUE,
          raised |-> [exc |-> "", service |-> "", clause |-> "none"]]
    ELSE [invoked |-> TRUE, returned |-> FALSE, raised |-> except_clauses(kind, outcome)]

NoCall == [kind |-> "generate", audio |-> "speech", script |-> <<>>]
NoResult == [outcome |-> "none", exc |-> "", service |-> "", clause |-> "none"]

\* The provider's outcome at its n-th attempt (it keeps its last behaviour).
ScriptAt(script, n) == script[Min(n, Len(script))]

\* A caller awaits one of the three decorated methods.
StartCall(kind, audio, script) ==
    /\ cpc = "idle"
    /\ kind # "transcribe" => audio = "speech"
    /\ call' = [kind |-> kind, audio |-> audio, script |-> script]
    /\ cpc' = "attempt"
    /\ attempts' = 0
    /\ invocations' = 0
    /\ waits' = <<>>
    /\ result' = NoResult
    /\ UNCHANGED notClientVars

\* tenacity runs the body once and decides: return, raise, or sleep and retry.
Attempt ==
    /\ cpc = "attempt"
    /\ attempts < AttemptCap
    /\ LET attempt_number == attempts + 1
           b == Body(call.kind, call.audio, ScriptAt(call.script, attempt_number))
       IN  /\ attempts' = attempt_number
           /\ invocations' = invocations + (IF b.invoked THEN 1 ELSE 0)
           /\ IF b.returned
              THEN /\ result' = [NoResult EXCEPT !.outcome = "returned"]
                   /\ cpc' = "done"
                   /\ UNCHANGED waits
              ELSE IF ShouldRetry(call.kind, b.raised.exc, attempt_number)
              THEN /\ waits' = Append(waits, wait_exponential(call.kind, attempt_number))
                   /\ UNCHANGED <<result, cpc>>
              ELSE /\ result' = [outcome |-> "raised", exc |-> b.raised.exc,
                                 service |-> b.raised.service, clause |-> b.raised.clause]
                   /\ cpc' = "done"
                   /\ UNCHANGED waits
    /\ UNCHANGED call
    /\ UNCHANGED notClientVars

\* The caller has taken the result.
CallReturns ==
    /\ cpc = "done"
    /\ cpc' = "idle"
    /\ call' = NoCall
    /\ attempts' = 0
    /\ invocations' = 0
    /\ waits' = <<>>
    /\ result' = NoResult
    /\ UNCHANGED notClientVars

Scripts == [1..ScriptLen -> ProviderOutcomes]

\* The wait policy on its own: the waits tenacity sleeps before the retries of
\* the attempts 1 .. attempt_number of one call, were each of them retried.
MaxAttemptNumber == 20
NoRetryState == [kind |-> "generate", attempt_number |-> 0]
RetrySleeps ==
    /\ slept = <<>>
    /\ retry_state.attempt_number > 0
    /\ slept' = [n \in 1..retry_state.attempt_number |->
                    wait_exponential(retry_state.kind, n)]
    /\ UNCHANGED retry_state
    /\ UNCHANGED notBackoffVars

NextBackoff == RetrySleeps

(***************************************************************************)
(* Audio artifacts: written by the problem generator, deleted by           *)
(* schedule_audio_cleanup after scoring or by cleanup_old_audio_files.     *)
(* Every filesystem call (exists, is_file, stat, unlink) is one step, so   *)
(* that cleanups running in different workers or processes interleave.     *)
(***************************************************************************)
Sessions == {"s1", "s2"}
TaskTypes == {"task1", "task2", "task3", "task4"}
StorageDir == "backend/audio_files"
MissingDir == "/nonexistent/directory"

\* f"lecture_{session_id}.mp3" and f"conversation_{problem_id}.mp3"
LecturePath(id) == IF id = "s1" THEN "lecture_s1.mp3" ELSE "lecture_s2.mp3"
ConversationPath(id) == IF id = "s1" THEN "conversation_s1.mp3" ELSE "conversation_s2.mp3"
LecturePaths == {LecturePath(id) : id \in Sessions}
ConversationPaths == {ConversationPath(id) : id \in Sessions}
ArtifactPaths == LecturePaths \cup ConversationPaths
AllPaths == ArtifactPaths \cup {StorageDir, MissingDir}
DirectPaths == {"", StorageDir, MissingDir}

SecondsPerHour == 3600
TickSeconds == 25 * SecondsPerHour
MaxNow == 90000
max_age_hours_default == 24
MaxAgeChoices == {max_age_hours_default}

CleanupWorkers == {"w1"}
WorkerIds == CleanupWorkers \cup {"sweep"}

\* interfered and rewritten are history: another cleanup has removed the path
\* of the call while it ran, the generator has written the path since the call
\* was entered.
IdleWorker ==
    [pc |-> "idle", path |-> "", ret |-> FALSE, entry |-> "", interfered |-> FALSE,
     rewritten |-> FALSE]
\* present, old and removed are history: the artifacts in the directory when the
\* sweep started, those of them older than the cutoff, and the files the sweep's
\* own unlink has removed.
IdleSweep ==
    [pc |-> "idle", cutoff_time |-> 0, todo |-> {}, deleted_count |-> 0,
     present |-> {}, old |-> {}, removed |-> {}]

\* The file the problem generator writes for a task type (Task 1 has no audio).
GeneratedAudioPath(task, problem_id) ==
    IF task = "task2" THEN ConversationPath(problem_id) ELSE LecturePath(problem_id)

\* A cleanup that is under way on a path, or whose result has not been taken
\* yet, is marked when the generator writes the path.
Disturbed(worker_states, p) ==
    [v \in WorkerIds |->
        IF worker_states[v].path = p
           /\ worker_states[v].pc \in {"exists", "is_file", "unlink", "done"}
        THEN [worker_states[v] EXCEPT !.rewritten = TRUE]
        ELSE worker_states[v]]

\* An id that has been drawn or used, without a PracticeSession row.
UnsavedSession == [task |-> "task1", state |-> "unsaved"]

\* POST /api/problems/generate (routers/problems.py lines 76-130) for a user that
\* exists: the generator draws a new id (uuid4) and, for a task with audio,
\* writes the file unless the TTS call fails; then the handler commits the
\* PracticeSession.  A commit that raises is answered with 500 and leaves the
\* file without a session.
GenerateProblem(id, task, tts_ok, deletable, commit_ok) ==
    /\ sessions[id].state = "none"
    /\ sessions' = [sessions EXCEPT ![id] =
                       IF commit_ok THEN [task |-> task, state |-> "generated"]
                       ELSE UnsavedSession]
    /\ IF task # "task1" /\ tts_ok
       THEN LET audio_filepath == GeneratedAudioPath(task, id)
            IN  /\ fs' = [fs EXCEPT ![audio_filepath] = "file"]
                /\ mtime' = [mtime EXCEPT ![audio_filepath] = now]
                /\ locked' = IF deletable THEN locked ELSE locked \cup {audio_filepath}
       ELSE UNCHANGED <<fs, mtime, locked>>
    /\ UNCHANGED <<now, workers, sweep>>
    /\ UNCHANGED notCleanupVars

\* ProblemGeneratorService.generate_lecture_audio (lines 388-434) with the
\* problem_id the caller chooses (or a new uuid4): open(..., "wb") creates the
\* lecture file or truncates the one that is there; a failing TTS call or a
\* directory at the path raises ProblemGenerationError and nothing is written.
\* A file that unlink cannot remove is either immutable, and open raises as
\* well, or lies in a directory without write permission, and open truncates
\* it: open_ok tells which.  An id used here is no new id for the generator
\* any more.
GenerateLectureAudio(problem_id, tts_ok, open_ok) ==
    /\ LET audio_filepath == LecturePath(problem_id)
       IN  IF tts_ok /\ fs[audio_filepath] # "dir"
              /\ (audio_filepath \notin locked \/ open_ok)
           THEN /\ fs' = [fs EXCEPT ![audio_filepath] = "file"]
                /\ mtime' = [mtime EXCEPT ![audio_filepath] = now]
                /\ workers' = Disturbed(workers, audio_filepath)
           ELSE UNCHANGED <<fs, mtime, workers>>
    /\ sessions' = IF sessions[problem_id].state = "none"
                   THEN [sessions EXCEPT ![problem_id] = UnsavedSession]
                   ELSE sessions
    /\ UNCHANGED <<now, locked, sweep>>
    /\ UNCHANGED notCleanupVars

\* cleanup_audio_file is entered with file_path (lines 27-33); entry remembers what
\* the path was at that moment.
EnterCleanup(file_path) ==
    IF file_path = ""
    THEN [IdleWorker EXCEPT !.pc = "done", !.path = file_path, !.ret = FALSE,
                            !.entry = "empty"]
    ELSE [IdleWorker EXCEPT !.pc = "exists", !.path = file_path, !.entry = fs[file_path]]

\* schedule_audio_cleanup is a plain function called from the async scoring handlers
\* (routers/scoring.py lines 207 and 456): the event loop runs it to its end before
\* it runs another handler.  The sweep has no caller on the event loop.
NoCleanupOnEventLoop == \A v \in CleanupWorkers : workers[v].pc \in {"idle", "done"}

\* The scoring result of the session is committed and schedule_audio_cleanup is
\* called with its id (lines 72-89): the path is derived and its existence checked.
ScoreAndScheduleCleanup(w, id) ==
    /\ w \in CleanupWorkers
    /\ workers[w].pc = "idle"
    /\ NoCleanupOnEventLoop
    /\ sessions[id].state \in {"generated", "scored"}
    /\ sessions' = [sessions EXCEPT ![id].state = "scored"]
    /\ LET audio_file == LecturePath(id)
       IN  workers' = [workers EXCEPT ![w] =
                         IF fs[audio_file] # "absent"
                         THEN EnterCleanup(audio_file)
                         ELSE [IdleWorker EXCEPT !.pc = "done", !.path = audio_file,
                                                 !.ret = TRUE, !.entry = "skipped"]]
    /\ UNCHANGED <<fs, locked, mtime, now, sweep>>
    /\ UNCHANGED notCleanupVars

\* cleanup_audio_file called directly with a path.
DirectCleanup(w, file_path) ==
    /\ w \in CleanupWorkers
    /\ workers[w].pc = "idle"
    /\ NoCleanupOnEventLoop
    /\ workers' = [workers EXCEPT ![w] = EnterCleanup(file_path)]
    /\ UNCHANGED <<fs, locked, mtime, now, sessions, sweep>>
    /\ UNCHANGED notCleanupVars

\* line 36: if not path.exists(): return True
CleanupExists(w) ==
    /\ workers[w].pc = "exists"
    /\ workers' = [workers EXCEPT ![w] =
                      IF fs[workers[w].path] = "absent"
                      THEN [@ EXCEPT !.pc = "done", !.ret = TRUE]
                      ELSE [@ EXCEPT !.pc = "is_file"]]
    /\ UNCHANGED <<fs, locked, mtime, now, sessions, sweep>>
    /\ UNCHANGED notCleanupVars

\* line 41: if not path.is_file(): return False
CleanupIsFile(w) ==
    /\ workers[w].pc = "is_file"
    /\ workers' = [workers EXCEPT ![w] =
                      IF fs[workers[w].path] # "file"
                      THEN [@ EXCEPT !.pc = "done", !.ret = FALSE]
                      ELSE [@ EXCEPT !.pc = "unlink"]]
    /\ UNCHANGED <<fs, locked, mtime, now, sessions, sweep>>
    /\ UNCHANGED notCleanupVars

\* What path.unlink() does: "ok", or the exception it raises.
UnlinkMissingOk(state, is_locked) ==
    IF state = "absent" THEN "ok"
    ELSE IF state = "dir" THEN "IsADirectoryError"
    ELSE IF is_locked THEN "PermissionError"
    ELSE "ok"
Unlink(state, is_locked) ==
    IF state = "absent" THEN "FileNotFoundError"
    ELSE IF state = "dir" THEN "IsADirectoryError"
    ELSE IF is_locked THEN "PermissionError"
    ELSE "ok"

\* What cleanup_audio_file returns after unlink (lines 46-55): both except clauses
\* return False.
ReturnAfterUnlink(outcome) == outcome = "ok"

\* lines 46-55: path.unlink() and the except clauses
CleanupUnlink(w) ==
    /\ workers[w].pc = "unlink"
    /\ LET p == workers[w].path
           outcome == Unlink(fs[p], p \in locked)
           removed == outcome = "ok" /\ fs[p] = "file"
       IN  /\ fs' = IF removed THEN [fs EXCEPT ![p] = "absent"] ELSE fs
           /\ mtime' = IF removed THEN [mtime EXCEPT ![p] = 0] ELSE mtime
           /\ workers' = [v \in WorkerIds |->
                             IF v = w
                             THEN [workers[w] EXCEPT !.pc = "done",
                                                     !.ret = ReturnAfterUnlink(outcome)]
                             ELSE IF removed /\ workers[v].path = p
                                     /\ workers[v].pc \in {"exists", "is_file", "unlink"}
                             THEN [workers[v] EXCEPT !.interfered = TRUE]
                             ELSE workers[v]]
           /\ sweep' = IF removed /\ w = "sweep"
                       THEN [sweep EXCEPT !.removed = @ \cup {p}] ELSE sweep
    /\ UNCHANGED <<locked, now, sessions>>
    /\ UNCHANGED notCleanupVars

\* The caller of schedule_audio_cleanup or cleanup_audio_file takes the result.
CleanupReturns(w) ==
    /\ w \in CleanupWorkers
    /\ workers[w].pc = "done"
    /\ workers' = [workers EXCEPT ![w] = IdleWorker]
    /\ UNCHANGED <<fs, locked, mtime, now, sessions, sweep>>
    /\ UNCHANGED notCleanupVars

\* storage_path.glob("lecture_*.mp3")
Glob(dir) == IF dir = StorageDir THEN {p \in LecturePaths : fs[p] # "absent"} ELSE {}

\* cleanup_old_audio_files, lines 110-128: the directory check, the cutoff, the glob.
SweepStart(dir, max_age_hours) ==
    /\ sweep.pc = "idle"
    /\ sweep' = IF fs[dir] = "absent"
                THEN [IdleSweep EXCEPT !.pc = "done"]
                ELSE LET cutoff_time == now - max_age_hours * SecondsPerHour
                         present == IF dir = StorageDir
                                    THEN {p \in ArtifactPaths : fs[p] # "absent"} ELSE {}
                     IN  [IdleSweep EXCEPT !.pc = "loop",
                                           !.cutoff_time = cutoff_time,
                                           !.todo = Glob(dir),
                                           !.present = present,
                                           !.old = {p \in present : mtime[p] < cutoff_time}]
    /\ UNCHANGED <<fs, locked, mtime, now, sessions, workers>>
    /\ UNCHANGED notCleanupVars

\* lines 128-135: the next file of the glob: stat, the age test, the call of
\* cleanup_audio_file.  A stat of a file deleted meanwhile raises and is skipped.
SweepStat(audio_file) ==
    /\ sweep.pc = "loop"
    /\ workers["sweep"].pc = "idle"
    /\ audio_file \in sweep.todo
    /\ sweep' = [sweep EXCEPT !.todo = @ \ {audio_file}]
    /\ workers' = [workers EXCEPT !["sweep"] =
                      IF fs[audio_file] # "absent" /\ mtime[audio_file] < sweep.cutoff_time
                      THEN EnterCleanup(audio_file)
                      ELSE @]
    /\ UNCHANGED <<fs, locked, mtime, now, sessions>>
    /\ UNCHANGED notCleanupVars

\* lines 135-137: if cleanup_audio_file(...): deleted_count += 1
SweepCount ==
    /\ sweep.pc = "loop"
    /\ workers["sweep"].pc = "done"
    /\ sweep' = [sweep EXCEPT !.deleted_count = IF workers["sweep"].ret THEN @ + 1 ELSE @]
    /\ workers' = [workers EXCEPT !["sweep"] = IdleWorker]
    /\ UNCHANGED <<fs, locked, mtime, now, sessions>>
    /\ UNCHANGED notCleanupVars

\* lines 143-144: return deleted_count
SweepEnds ==
    /\ sweep.pc = "loop"
    /\ sweep.todo = {}
    /\ workers["sweep"].pc = "idle"
    /\ sweep' = [sweep EXCEPT !.pc = "done"]
    /\ UNCHANGED <<fs, locked, mtime, now, sessions, workers>>
    /\ UNCHANGED notCleanupVars

\* The caller of cleanup_old_audio_files takes the count.
SweepReturns ==
    /\ sweep.pc = "done"
    /\ sweep' = IdleSweep
    /\ UNCHANGED <<fs, locked, mtime, now, sessions, workers>>
    /\ UNCHANGED notCleanupVars

\* Time passes on the cleanup side.
CleanupTick ==
    /\ now + TickSeconds <= MaxNow
    /\ now' = now + TickSeconds
    /\ UNCHANGED <<fs, locked, mtime, sessions, workers, sweep>>
    /\ UNCHANGED notCleanupVars

(***************************************************************************)
(* Failures on their way to the client: the exceptions of exceptions.py,   *)
(* the except clauses of the client, the services and the routers, and the *)
(* handlers of middleware/error_handler.py.  A message is a text: the      *)
(* sequence of the fragments it is formatted from.                         *)
(***************************************************************************)
NoDetails == <<>>

\* TOEFLAppException.__init__ (user_message or message, details or {})
TOEFLAppException(cls, message, user_message, error_code, details) ==
    [cls |-> cls, message |-> message,
     user_message |-> IF user_message # <<>> THEN user_message ELSE message,
     error_code |-> error_code, details |-> details, status_code |-> 0, detail |-> <<>>]

\* The subclasses, raised without a user_message.
AuthenticationError(message) ==
    TOEFLAppException("AuthenticationError", message, <<"ja: login failed">>,
                      "AUTH_ERROR", NoDetails)
ProblemGenerationError(message) ==
    TOEFLAppException("ProblemGenerationError", message, <<"ja: problem generation failed">>,
                      "PROBLEM_GENERATION_ERROR", NoDetails)
SpeechProcessingError(message) ==
    TOEFLAppException("SpeechProcessingError", message, <<"ja: transcription failed">>,
                      "SPEECH_PROCESSING_ERROR", NoDetails)
ScoringError(message) ==
    TOEFLAppException("ScoringError", message, <<"ja: scoring failed">>,
                      "SCORING_ERROR", NoDetails)
RateLimitExceededError(message) ==
    TOEFLAppException("RateLimitExceededError", message, <<"ja: request limit exceeded">>,
                      "RATE_LIMIT_EXCEEDED", NoDetails)
ExternalAPIError(service, message) ==
    TOEFLAppException("ExternalAPIError", <<service, " API Error: ">> \o message,
                      <<"ja: external service communication failed">>,
                      "EXTERNAL_API_ERROR", <<"service", service>>)
ValidationError(message, field) ==
    TOEFLAppException("ValidationError", message, <<"ja: input data is not valid">>,
                      "VALIDATION_ERROR",
                      IF field # "" THEN <<"field", field>> ELSE NoDetails)

\* fastapi.HTTPException(status_code, detail)
HTTPException(status_code, detail) ==
    [cls |-> "HTTPException", message |-> detail, user_message |-> <<>>,
     error_code |-> "", details |-> NoDetails, status_code |-> status_code,
     detail |-> detail]

\* An exception of another class, e.g. of the provider: str(e) is its text.
PlainException(cls, text) ==
    [cls |-> cls, message |-> text, user_message |-> <<>>, error_code |-> "",
     details |-> NoDetails, status_code |-> 0, detail |-> <<>>]
NoException == PlainException("", <<>>)

\* str(e): an HTTPException prints as "<status_code>: <detail>", any other
\* exception as its message.
Str(e) ==
    IF e.cls = "HTTPException" THEN <<ToString(e.status_code), ": ">> \o e.detail
    ELSE e.message

\* needle in fragment, for the needles of the source (lines 240 and 280-290)
\* and the fragments of the texts and the file names; a fragment without a row
\* holds none of the needles.
Substrings(fragment) ==
    CASE fragment = "401" -> {"401"}
      [] fragment = "Access denied" -> {"Access denied"}
      [] fragment = "invalid subscription key" -> {"invalid subscription key"}
      [] fragment = "could not be decoded" -> {"could not be decoded"}
      [] fragment = "format is not supported" -> {"format is not supported"}
      [] fragment = "Invalid file format" -> {"Invalid file format", "file format"}
      [] fragment = "file format" -> {"file format"}
      [] fragment = "Audio decoding failed" -> {"Audio decoding failed"}
      [] fragment = "recording.webm" -> {"webm"}
      [] OTHER -> {}
\* needle in fragment.lower(): the needles of Substrings that are in the lower
\* case of the fragment.
SubstringsLower(fragment) ==
    CASE fragment \in {"Invalid Subscription Key", "INVALID SUBSCRIPTION KEY"} ->
           {"invalid subscription key"}
      [] fragment \in {"Could not be decoded", "COULD NOT BE DECODED"} ->
           {"could not be decoded"}
      [] fragment \in {"Format is not supported", "FORMAT IS NOT SUPPORTED"} ->
           {"format is not supported"}
      [] fragment \in {"Invalid file format", "INVALID FILE FORMAT", "File format",
                       "FILE FORMAT"} -> {"file format"}
      [] fragment = "RECORDING.WEBM" -> {"webm"}
      [] fragment \in {"Access denied", "Audio decoding failed"} -> {}
      [] OTHER -> Substrings(fragment)
Has(text, needle) == \E i \in DOMAIN text : needle \in Substrings(text[i])
HasLower(text, needle) == \E i \in DOMAIN text : needle \in SubstringsLower(text[i])

\* call_gpt4, lines 173-187
call_gpt4_except(e) ==
    LET c == except_clauses("generate", e.cls)
    IN  ExternalAPIError(c.service,
            CASE c.clause = "RateLimitError" ->
                   <<"Rate limit exceeded. Please try again later.">>
              [] c.clause = "APITimeoutError" -> <<"Request timed out. Please try again.">>
              [] c.clause = "APIError" -> <<"API error: ">> \o Str(e)
              [] OTHER -> <<"Unexpected error: ">> \o Str(e))

\* filename.endswith('.webm') or 'webm' in filename.lower()
is_webm(filename) == filename = "recording.webm" \/ HasLower(<<filename>>, "webm")
\* filename.replace('.webm', '.ogg')
replace_webm(filename) == IF filename = "recording.webm" THEN "recording.ogg" ELSE filename
\* transcribe_audio, lines 240-243: the name the try block goes on with.
whisper_filename(filename) == IF is_webm(filename) THEN replace_webm(filename) ELSE filename

\* transcribe_audio, lines 260-299; the provider's exceptions arise after the
\* local filename has been rebound by line 242.
transcribe_audio_except(e, original_filename) ==
    LET c == except_clauses("transcribe", e.cls)
        error_message == Str(e)
        filename == whisper_filename(original_filename)
    IN  SpeechProcessingError(
            CASE c.clause = "RateLimitError" ->
                   <<"Rate limit exceeded. Please try again later.">>
              [] c.clause = "APITimeoutError" -> <<"Request timed out. Please try again.">>
              [] c.clause = "APIError" ->
                   IF Has(error_message, "401") \/ Has(error_message, "Access denied")
                      \/ HasLower(error_message, "invalid subscription key")
                   THEN <<"ja: Azure OpenAI authentication error">>
                   ELSE IF HasLower(error_message, "could not be decoded")
                           \/ HasLower(error_message, "format is not supported")
                   THEN IF is_webm(filename)
                        THEN <<"ja: WebM audio could not be processed">>
                        ELSE <<"ja: audio format is invalid">>
                   ELSE IF Has(error_message, "Invalid file format")
                           \/ HasLower(error_message, "file format")
                   THEN <<"ja: audio format is invalid">>
                   ELSE IF Has(error_message, "Audio decoding failed")
                   THEN <<"ja: audio could not be analysed">>
                   ELSE <<"ja: transcription failed, record again">>
              [] OTHER -> <<"Unexpected error: ">> \o Str(e))

\* The except clauses of the structured-generation methods of the client
\* (generate_problem 693-700, score_task1_response 776-783, score_response 890-897):
\* bad JSON gets a fixed message, ExternalAPIError passes, anything else is wrapped.
client_method_except(method, e) ==
    LET Domain(message) ==
            IF method = "generate_problem" THEN ProblemGenerationError(message)
            ELSE ScoringError(message)
    IN  IF IsInstance(e.cls, "JSONDecodeError")
        THEN Domain(IF method = "generate_problem"
                    THEN <<"Failed to generate valid problem format">>
                    ELSE <<"Failed to generate valid scoring format">>)
        ELSE IF IsInstance(e.cls, "ExternalAPIError") THEN e
        ELSE Domain((CASE method = "generate_problem" -> <<"Failed to generate problem: ">>
                       [] method = "score_task1_response" ->
                            <<"Failed to score Task 1 response: ">>
                       [] OTHER -> <<"Failed to score response: ">>) \o Str(e))

\* The except clauses of the services: ScoringService.evaluate_task1_response
\* (101-105) and evaluate_response (157-161), SpeechService.transcribe_audio (81-88),
\* ProblemGeneratorService._generate_task3_problem (384-386) and generate_problem
\* (141-143).
service_except(method, e) ==
    CASE method = "evaluate_task1_response" ->
           IF IsInstance(e.cls, "ScoringError") THEN e
           ELSE ScoringError(<<"Failed to evaluate Task 1 response: ">> \o Str(e))
      [] method = "evaluate_response" ->
           IF IsInstance(e.cls, "ScoringError") THEN e
           ELSE ScoringError(<<"Failed to evaluate response: ">> \o Str(e))
      [] method = "SpeechService.transcribe_audio" ->
           IF IsInstance(e.cls, "SpeechProcessingError") THEN e
           ELSE SpeechProcessingError(<<"ja: unexpected error during transcription: ">>
                                      \o Str(e))
      [] method = "_generate_task3_problem" ->
           ProblemGenerationError(<<"Failed to generate Task 3 problem: ">> \o Str(e))
      [] method = "ProblemGeneratorService.generate_problem" ->
           ProblemGenerationError(<<"Failed to generate problem: ">> \o Str(e))

\* The except clauses of the routers: scoring.py 220-230 and 477-487,
\* problems.py 172-189, speech.py 164-193.
router_except(route, e) ==
    CASE route \in {"evaluate-task1", "evaluate"} ->
           IF IsInstance(e.cls, "HTTPException") THEN e
           ELSE IF IsInstance(e.cls, "ScoringError") THEN HTTPException(400, Str(e))
           ELSE IF IsInstance(e.cls, "ExternalAPIError")
           THEN HTTPException(503, <<"ja: scoring failed, try again">>)
           ELSE HTTPException(500, <<"ja: an error occurred during scoring">>)
      [] route = "problems/generate" ->
           IF IsInstance(e.cls, "ProblemGenerationError")
           THEN HTTPException(500, <<"ja: problem generation failed, try again">>)
           ELSE IF IsInstance(e.cls, "ExternalAPIError")
           THEN HTTPException(503, <<"ja: external service communication failed">>)
           ELSE HTTPException(500, <<"ja: an unexpected error occurred">>)
      [] route = "speech/transcribe" ->
           IF IsInstance(e.cls, "SpeechProcessingError") THEN HTTPException(500, Str(e))
           ELSE IF IsInstance(e.cls, "ExternalAPIError")
           THEN HTTPException(503, <<"ja: external service communication failed">>)
           ELSE IF IsInstance(e.cls, "HTTPException") THEN e
           ELSE HTTPException(500, <<"ja: an unexpected error occurred: ">> \o Str(e))
      [] OTHER -> e

\* ErrorResponse.to_dict
to_dict(error_code, message, user_message, details) ==
    [error |-> [code |-> error_code, message |-> message,
                user_message |-> user_message, details |-> details],
     detail |-> message]

\* JSONResponse(status_code, content, headers)
JSONResponse(status_code, content, headers) ==
    [status_code |-> status_code, body |-> content, headers |-> headers]
NoHeaders == <<>>
NoErrorResponse == [status_code |-> 0]

\* status_code_map.get(type(exc), 500): the lookup is by the exact class.
status_code_map(cls) ==
    CASE cls = "AuthenticationError" -> 401
      [] cls = "RateLimitExceededError" -> 429
      [] cls = "ExternalAPIError" -> 503
      [] cls = "ValidationError" -> 400
      [] cls \in {"ProblemGenerationError", "SpeechProcessingError", "ScoringError"} -> 500
      [] OTHER -> 500

toefl_exception_handler(exc) ==
    JSONResponse(status_code_map(exc.cls),
                 to_dict(IF exc.error_code # "" THEN exc.error_code ELSE "INTERNAL_ERROR",
                         exc.message, exc.user_message, exc.details),
                 NoHeaders)

user_messages(status_code) ==
    CASE status_code = 400 -> <<"ja: the request is not correct">>
      [] status_code = 401 -> <<"ja: authentication is required">>
      [] status_code = 403 -> <<"ja: access was denied">>
      [] status_code = 404 -> <<"ja: the resource was not found">>
      [] status_code = 429 -> <<"ja: request limit exceeded">>
      [] status_code = 500 -> <<"ja: a server error occurred">>
      [] status_code = 503 -> <<"ja: the service is temporarily unavailable">>
      [] OTHER -> <<"ja: an error occurred">>

http_exception_handler(exc) ==
    JSONResponse(exc.status_code,
                 to_dict(<<"HTTP_", exc.status_code>>, exc.detail,
                         user_messages(exc.status_code), NoDetails),
                 NoHeaders)

validation_exception_handler(exc) ==
    JSONResponse(422,
                 to_dict("VALIDATION_ERROR", <<"Request validation failed">>,
                         <<"ja: input data is not valid, check the input">>,
                         <<"validation_errors", exc.details>>),
                 NoHeaders)

generic_exception_handler(exc) ==
    JSONResponse(500,
                 to_dict("INTERNAL_ERROR", <<"Internal server error: ", exc.cls>>,
                         <<"ja: an unexpected error occurred, try again later">>, NoDetails),
                 NoHeaders)

\* The handlers registered in main.py, looked up along the class of the exception.
exception_handler(exc) ==
    IF IsInstance(exc.cls, "TOEFLAppException") THEN toefl_exception_handler(exc)
    ELSE IF IsInstance(exc.cls, "HTTPException") THEN http_exception_handler(exc)
    ELSE IF IsInstance(exc.cls, "RequestValidationError")
    THEN validation_exception_handler(exc)
    ELSE generic_exception_handler(exc)

\* The rejection of RateLimitMiddleware.dispatch, lines 134-149.
rate_limit_response(requests_per_minute, current_time) ==
    JSONResponse(429,
                 [detail |-> <<"ja: request limit exceeded">>,
                  error |-> "rate_limit_exceeded",
                  retry_after |-> window_size],
                 [retry_after |-> window_size, limit |-> requests_per_minute,
                  remaining |-> 0, reset |-> current_time + window_size])

\* The layers a failure crosses on each route, innermost first.
Layer(kind, method) == [kind |-> kind, method |-> method]
Chain(route) ==
    CASE route = "evaluate" ->
           <<Layer("client", "call_gpt4"), Layer("client_method", "score_response"),
             Layer("service", "evaluate_response"), Layer("router", route)>>
      [] route = "evaluate-task1" ->
           <<Layer("client", "call_gpt4"), Layer("client_method", "score_task1_response"),
             Layer("service", "evaluate_task1_response"), Layer("router", route)>>
      [] route = "problems/generate" ->
           <<Layer("client", "call_gpt4"), Layer("client_method", "generate_problem"),
             Layer("service", "_generate_task3_problem"),
             Layer("service", "ProblemGeneratorService.generate_problem"),
             Layer("router", route)>>
      [] route = "speech/transcribe" ->
           <<Layer("client", "transcribe_audio"),
             Layer("service", "SpeechService.transcribe_audio"), Layer("router", route)>>
      [] OTHER -> <<>>

ScoringRoutes == {"evaluate", "evaluate-task1"}
GuardedRoutes == ScoringRoutes \cup {"problems/generate", "speech/transcribe"}
\* A route whose handler has no except clause of its own (routers/history.py).
UnguardedRoute == "history"

\* The installed pydantic: the wording of its errors and the coercion of its
\* models differ between the major versions.
PydanticVersions == {1, 2}
\* ".".join(str(loc) for loc in error["loc"]) of a field of the body
body_loc(field) ==
    CASE field = "transcript" -> "body.transcript"
      [] field = "question" -> "body.question"
      [] field = "lecture_script" -> "body.lecture_script"
      [] OTHER -> "body.reading_text"
\* What pydantic reports for a required field the body does not have.
field_required(field, pydantic) ==
    IF pydantic = 1 THEN <<body_loc(field), "field required", "value_error.missing">>
    ELSE <<body_loc(field), "Field required", "missing">>

\* The text a failure carries inside the server.
InternalTexts == {<<"boom-1">>, <<"boom-2">>, <<"401", "boom-1">>,
                  <<"Invalid file format", "boom-2">>, <<"could not be decoded", "boom-1">>,
                  <<"format is not supported">>, <<"Invalid Subscription Key", "boom-2">>,
                  <<"COULD NOT BE DECODED">>}
Filenames == {"recording.webm", "recording.mp3", "RECORDING.WEBM"}

\* A failure: the route, the layer in whose try block it is raised (an index of
\* the route's chain), the kind the taxonomy gives it, and the exception.
Failure(route, stage, kind, exc, filename) ==
    [route |-> route, stage |-> stage, kind |-> kind, exc |-> exc, filename |-> filename]
NoFailure == Failure("", 0, "", NoException, "")
Failures ==
    {Failure(route, 1, "ExternalServiceError", PlainException(cls, text),
             IF route = "speech/transcribe" THEN filename ELSE "") :
        route \in GuardedRoutes, cls \in ProviderErrors, text \in InternalTexts,
        filename \in Filenames}
    \cup {Failure(route, 2, "ScoringError",
                  PlainException("JSONDecodeError", <<"Expecting value">>), "") :
             route \in ScoringRoutes}
    \cup {Failure("problems/generate", 2, "GenerationError",
                  PlainException("JSONDecodeError", <<"Expecting value">>), "")}
    \cup {Failure(route, 2, "ScoringError",
                  ScoringError(<<"Missing required field: ", "overall_score">>), "") :
             route \in ScoringRoutes}
    \cup {Failure(route, 3, "ScoringError",
                  ScoringError(<<"Transcript cannot be empty">>), "") :
             route \in ScoringRoutes}
    \cup {Failure(route, 4, "NotFound",
                  HTTPException(404, <<"Practice session not found">>), "") :
             route \in ScoringRoutes}
    \cup {Failure("problems/generate", 5, "NotFound",
                  HTTPException(404, <<"User not found">>), ""),
          Failure(UnguardedRoute, 1, "NotFound",
                  HTTPException(404, <<"User not found">>), "")}
    \cup {Failure(route, Len(Chain(route)), "Internal",
                  PlainException("OperationalError", text), "") :
             route \in GuardedRoutes, text \in InternalTexts}
    \cup {Failure(UnguardedRoute, 1, "Internal",
                  PlainException("OperationalError", text), "") : text \in InternalTexts}
    \cup UNION {{Failure(UnguardedRoute, 1, "AuthenticationError", AuthenticationError(text), ""),
          Failure(UnguardedRoute, 1, "ValidationError", ValidationError(text, "email"), ""),
          Failure(UnguardedRoute, 1, "RateLimitExceeded", RateLimitExceededError(text), ""),
          Failure(UnguardedRoute, 1, "ExternalServiceError",
                  ExternalAPIError("OpenAI", text), ""),
          Failure(UnguardedRoute, 1, "GenerationError", ProblemGenerationError(text), ""),
          Failure(UnguardedRoute, 1, "TranscriptionError", SpeechProcessingError(text), ""),
          Failure(UnguardedRoute, 1, "ScoringError", ScoringError(text), ""),
          Failure(UnguardedRoute, 1, "Internal",
                  TOEFLAppException("TOEFLAppException", text, <<>>, "", NoDetails), "")} :
             text \in InternalTexts}
    \cup {Failure(route, 1, "RequestValidation",
                  [PlainException("RequestValidationError", <<"validation error">>)
                       EXCEPT !.details = <<field_required("transcript", pydantic)>>],
                  "") : route \in ScoringRoutes, pydantic \in PydanticVersions}

\* The failure is raised inside the try block of one layer of its route.
RaiseFailure(f) ==
    /\ efail = NoFailure
    /\ efail' = f
    /\ eexc' = f.exc
    /\ echain' = IF f.kind = "RequestValidation" THEN <<>>
                 ELSE SubSeq(Chain(f.route), f.stage, Len(Chain(f.route)))
    /\ eresp' = NoErrorResponse
    /\ UNCHANGED notErrorVars

\* The except clauses of the client's call catch the exception.
ClientExcept ==
    /\ echain # <<>>
    /\ Head(echain).kind = "client"
    /\ eexc' = IF Head(echain).method = "transcribe_audio"
               THEN transcribe_audio_except(eexc, efail.filename)
               ELSE call_gpt4_except(eexc)
    /\ echain' = Tail(echain)
    /\ UNCHANGED <<efail, eresp>>
    /\ UNCHANGED notErrorVars

\* The except clauses of the client method that parses the reply.
ClientMethodExcept ==
    /\ echain # <<>>
    /\ Head(echain).kind = "client_method"
    /\ eexc' = client_method_except(Head(echain).method, eexc)
    /\ echain' = Tail(echain)
    /\ UNCHANGED <<efail, eresp>>
    /\ UNCHANGED notErrorVars

\* The except clauses of the service method.
ServiceExcept ==
    /\ echain # <<>>
    /\ Head(echain).kind = "service"
    /\ eexc' = service_except(Head(echain).method, eexc)
    /\ echain' = Tail(echain)
    /\ UNCHANGED <<efail, eresp>>
    /\ UNCHANGED notErrorVars

\* The except clauses of the route handler.
RouterExcept ==
    /\ echain # <<>>
    /\ Head(echain).kind = "router"
    /\ eexc' = router_except(Head(echain).method, eexc)
    /\ echain' = Tail(echain)
    /\ UNCHANGED <<efail, eresp>>
    /\ UNCHANGED notErrorVars

\* The exception leaves the route handler and the registered handler answers.
HandleException ==
    /\ efail # NoFailure
    /\ echain = <<>>
    /\ eresp = NoErrorResponse
    /\ eresp' = exception_handler(eexc)
    /\ UNCHANGED <<efail, eexc, echain>>
    /\ UNCHANGED notErrorVars

\* The limiter rejects the request before any handler runs.
RateLimitReject(f, current_time) ==
    /\ efail = NoFailure
    /\ efail' = f
    /\ eexc' = NoException
    /\ echain' = <<>>
    /\ eresp' = rate_limit_response(capacity, current_time)
    /\ UNCHANGED notErrorVars

\* The response has gone out; it stays on record until the next failure.
ErrorResponseSent ==
    /\ efail # NoFailure
    /\ eresp # NoErrorResponse
    /\ efail' = NoFailure
    /\ eexc' = NoException
    /\ UNCHANGED <<echain, eresp>>
    /\ UNCHANGED notErrorVars

RateLimitFailures ==
    {Failure(route, 0, "RateLimitExceeded", NoException, "") : route \in GuardedRoutes}

NextErrors ==
    \/ \E f \in Failures : RaiseFailure(f)
    \/ ClientExcept
    \/ ClientMethodExcept
    \/ ServiceExcept
    \/ RouterExcept
    \/ HandleException
    \/ \E f \in RateLimitFailures, current_time \in {0, MaxTime} : RateLimitReject(f, current_time)
    \/ ErrorResponseSent

(***************************************************************************)
(* Construction of the exceptions of exceptions.py with the arguments of   *)
(* the raiser; the text <<>> is a user_message that is not supplied (None  *)
(* and "" alike are falsy in "user_message or ...").                       *)
(***************************************************************************)
TaxonomyClasses ==
    {"TOEFLAppException", "AuthenticationError", "ProblemGenerationError",
     "SpeechProcessingError", "ScoringError", "RateLimitExceededError", "ExternalAPIError",
     "ValidationError"}

\* The user_message a subclass passes to the base class when it is given none.
default_user_message(cls) ==
    CASE cls = "AuthenticationError" -> <<"ja: login failed">>
      [] cls = "ProblemGenerationError" -> <<"ja: problem generation failed">>
      [] cls = "SpeechProcessingError" -> <<"ja: transcription failed">>
      [] cls = "ScoringError" -> <<"ja: scoring failed">>
      [] cls = "RateLimitExceededError" -> <<"ja: request limit exceeded">>
      [] cls = "ExternalAPIError" -> <<"ja: external service communication failed">>
      [] cls = "ValidationError" -> <<"ja: input data is not valid">>
      [] OTHER -> <<>>

\* The error_code a subclass passes to the base class; the base class has None.
error_code_of(cls) ==
    CASE cls = "AuthenticationError" -> "AUTH_ERROR"
      [] cls = "ProblemGenerationError" -> "PROBLEM_GENERATION_ERROR"
      [] cls = "SpeechProcessingError" -> "SPEECH_PROCESSING_ERROR"
      [] cls = "ScoringError" -> "SCORING_ERROR"
      [] cls = "RateLimitExceededError" -> "RATE_LIMIT_EXCEEDED"
      [] cls = "ExternalAPIError" -> "EXTERNAL_API_ERROR"
      [] cls = "ValidationError" -> "VALIDATION_ERROR"
      [] OTHER -> ""

\* user_message or <the default of the subclass>
or_default(user_message, cls) ==
    IF user_message # <<>> THEN user_message ELSE default_user_message(cls)

\* cls(message, user_message=user_message), and ExternalAPIError(service, message, ...)
new_exception(cls, service, message, user_message) ==
    CASE cls = "TOEFLAppException" ->
            TOEFLAppException(cls, message, user_message, "", NoDetails)
      [] cls = "ExternalAPIError" ->
            TOEFLAppException(cls, <<service, " API Error: ">> \o message,
                              or_default(user_message, cls), error_code_of(cls),
                              <<"service", service>>)
      [] OTHER ->
            TOEFLAppException(cls, message, or_default(user_message, cls),
                              error_code_of(cls), NoDetails)

NoExcArgs == [cls |-> "", service |-> "", message |-> <<>>, user_message |-> <<>>]

\* A raiser constructs an exception.
Construct(cls, service, message, user_message) ==
    /\ exc_args' = [cls |-> cls, service |-> service, message |-> message,
                    user_message |-> user_message]
    /\ raised_exc' = new_exception(cls, service, message, user_message)
    /\ UNCHANGED notExceptionVars

Services == {"OpenAI", "Whisper"}
UserMessages == {<<>>, <<"ja: custom message">>, <<"ja: please record again">>}
NextExceptions ==
    \E cls \in TaxonomyClasses, message \in InternalTexts, user_message \in UserMessages :
        \E service \in IF cls = "ExternalAPIError" THEN Services ELSE {""} :
            Construct(cls, service, message, user_message)

(***************************************************************************)
(* Scoring: the scores of the model's reply on their way through           *)
(* OpenAIClient.score_task1_response / score_response, ScoringService and   *)
(* the route handlers of routers/scoring.py.  A JSON number is its type and *)
(* its value in tenths.                                                    *)
(***************************************************************************)
IntScore(n) == [type |-> "int", tenths |-> 10 * n, nan |-> FALSE]
FloatScore(tenths) == [type |-> "float", tenths |-> tenths, nan |-> FALSE]
\* float("nan"), which json.loads reads from the literal NaN
NaN == [type |-> "float", tenths |-> 0, nan |-> TRUE]
StrScore == [type |-> "str", tenths |-> 0, nan |-> FALSE]
Absent == [type |-> "absent", tenths |-> 0, nan |-> FALSE]

ScoreValues ==
    {IntScore(-1), IntScore(0), IntScore(3), IntScore(4), IntScore(5),
     FloatScore(39), FloatScore(40), FloatScore(-5), FloatScore(45), NaN, StrScore, Absent}

\* A JSON value other than a number: a list of values, a string, an object
\* with a text and a category, or no value at all.
JsonList(items) == [type |-> "list", items |-> items, text |-> "", category |-> ""]
JsonStr(text) == [type |-> "str", items |-> <<>>, text |-> text, category |-> ""]
JsonDict(text, category) == [type |-> "dict", items |-> <<>>, text |-> text, category |-> category]
JsonAbsent == [type |-> "absent", items |-> <<>>, text |-> "", category |-> ""]

score_fields == <<"delivery_score", "language_use_score", "topic_dev_score", "overall_score">>
ScoreFieldNames == {score_fields[i] : i \in DOMAIN score_fields}
feedback_fields == <<"delivery_feedback", "language_use_feedback", "topic_dev_feedback">>
FeedbackFieldNames == {feedback_fields[i] : i \in DOMAIN feedback_fields}
ReplyFieldNames == ScoreFieldNames \cup FeedbackFieldNames \cup {"improvement_tips"}
InputFieldNames == {"transcript", "reading_text", "lecture_script", "question"}

\* The scoring record of a reply: its scores, its feedback texts, its tips.
Reply(scores, feedback, improvement_tips) ==
    [f \in ReplyFieldNames |->
        IF f \in ScoreFieldNames THEN scores[f]
        ELSE IF f \in FeedbackFieldNames THEN feedback[f]
        ELSE improvement_tips]
NoScores == [f \in ScoreFieldNames |-> Absent]
NoScoringData == Reply(NoScores, [f \in FeedbackFieldNames |-> JsonAbsent], JsonAbsent)
NoScoringRequest == [route |-> "", data |-> NoScoringData, empty |-> {}, blank |-> {}]

\* int(score) of a number that is not NaN: truncation toward zero.
int(score) ==
    IntScore(IF score.tenths >= 0 THEN score.tenths \div 10 ELSE -((-score.tenths) \div 10))

\* not isinstance(score, (int, float)) or score < 0 or score > 4: every
\* comparison with NaN is false.
client_rejects(score) ==
    \/ score.type \notin {"int", "float"}
    \/ ~score.nan /\ (score.tenths < 0 \/ score.tenths > 40)

\* score_task1_response, lines 766-774: the exception raised in the try block, if any.
score_task1_response_check(data) ==
    IF data["overall_score"].type = "absent"
    THEN ScoringError(<<"Missing required field: ", "overall_score">>)
    ELSE IF client_rejects(data["overall_score"])
    THEN ScoringError(<<"Invalid overall score: ", data["overall_score"]>>)
    ELSE NoException

\* score_response, lines 880-886: the first field that fails, in the order of score_fields.
RECURSIVE score_response_check(_, _)
score_response_check(data, i) ==
    IF i > Len(score_fields) THEN NoException
    ELSE LET field == score_fields[i]
         IN  IF data[field].type = "absent"
             THEN ScoringError(<<"Missing required field: ", field>>)
             ELSE IF client_rejects(data[field])
             THEN ScoringError(<<"Invalid score for ", field, ": ", data[field]>>)
             ELSE score_response_check(data, i + 1)

\* ScoringService._validate_score: the exception it raises, if any, and its
\* result.  int() of NaN raises ValueError.
validate_score_error(score, field_name) ==
    LET value == IF score.type = "float" THEN int(score) ELSE score
    IN  IF score.type = "absent"
        THEN ScoringError(<<"Missing required field: ", field_name>>)
        ELSE IF score.type = "float" /\ score.nan
        THEN PlainException("ValueError", <<"cannot convert float NaN to integer">>)
        ELSE IF value.type # "int"
        THEN ScoringError(<<"Invalid score type for ", field_name, ": expected int, got ",
                            score.type>>)
        ELSE IF value.tenths < 0 \/ value.tenths > 40
        THEN ScoringError(<<"Score for ", field_name, " must be between 0 and 4, got ",
                            value>>)
        ELSE NoException
validate_score(score, field_name) ==
    IF score.type = "float" THEN int(score) ELSE score

\* data.get(field, []): the default of a missing field is the empty list.
get_list(data, field) ==
    IF data[field].type = "absent" THEN JsonList(<<>>) ELSE data[field]

\* _parse_scoring_data, lines 196-201: the exception raised for improvement_tips, if any.
parse_improvement_tips_error(data) ==
    LET improvement_tips == get_list(data, "improvement_tips")
    IN  IF improvement_tips.type # "list"
        THEN ScoringError(<<"Improvement tips must be a list">>)
        ELSE IF improvement_tips.items = <<>>
        THEN ScoringError(<<"At least one improvement tip is required">>)
        ELSE NoException
parse_improvement_tips(data) == get_list(data, "improvement_tips")

\* _parse_scoring_data, lines 181-193: data.get(field, "") and the first
\* feedback that is empty.
feedback_messages ==
    <<"Missing delivery feedback", "Missing language use feedback",
      "Missing topic development feedback">>
get_text(data, field) ==
    IF data[field].type = "absent" THEN JsonStr("") ELSE data[field]
RECURSIVE missing_feedback(_, _)
missing_feedback(data, i) ==
    IF i > Len(feedback_fields) THEN NoException
    ELSE IF get_text(data, feedback_fields[i]) \in {JsonStr(""), JsonList(<<>>)}
    THEN ScoringError(<<feedback_messages[i]>>)
    ELSE missing_feedback(data, i + 1)

\* The try block of ScoringService._parse_scoring_data (lines 176-201): delivery,
\* language use, topic development and overall are validated in this order
\* (which is the order of score_fields), then the feedback texts, then the tips.
RECURSIVE parse_scoring_data_try(_, _)
parse_scoring_data_try(data, i) ==
    IF i > Len(score_fields)
    THEN IF missing_feedback(data, 1) # NoException THEN missing_feedback(data, 1)
         ELSE parse_improvement_tips_error(data)
    ELSE LET e == validate_score_error(data[score_fields[i]], score_fields[i])
         IN  IF e # NoException THEN e ELSE parse_scoring_data_try(data, i + 1)
\* lines 220-225: a ScoringError passes, any other exception is wrapped.
parse_scoring_data_error(data) ==
    LET e == parse_scoring_data_try(data, 1)
    IN  IF e = NoException \/ IsInstance(e.cls, "ScoringError") THEN e
        ELSE ScoringError(<<"Invalid scoring data format: ">> \o Str(e))
parse_scoring_data(data) ==
    [f \in ScoreFieldNames |-> validate_score(data[f], f)]

\* The request models Task1ScoringRequest (lines 27-31) and ScoringRequest
\* (lines 79-84): the fields declared with min_length=1, in their order.
min_length_fields(route) ==
    IF route = "evaluate-task1" THEN <<"transcript", "question">>
    ELSE <<"transcript", "lecture_script">>
\* What pydantic reports for a string shorter than min_length=1.
string_too_short(field, pydantic) ==
    IF pydantic = 1
    THEN <<body_loc(field), "ensure this value has at least 1 characters",
           "value_error.any_str.min_length">>
    ELSE <<body_loc(field), "String should have at least 1 character", "string_too_short">>
\* FastAPI validates the body against the request model before it calls the
\* handler: empty holds the inputs that are the empty string.
request_validation_error(route, empty, pydantic) ==
    LET short == SelectSeq(min_length_fields(route), LAMBDA f : f \in empty)
    IN  IF short = <<>> THEN NoException
        ELSE [PlainException("RequestValidationError", <<"validation error">>)
                 EXCEPT !.details = [i \in DOMAIN short |->
                                        string_too_short(short[i], pydantic)]]

\* The input checks of ScoringService.evaluate_task1_response (lines 88-92) and
\* evaluate_response (lines 136-145): blank holds the inputs that are empty or
\* white space only (for evaluate_response the question is session.question).
service_input_error(method, blank) ==
    IF "transcript" \in blank THEN ScoringError(<<"Transcript cannot be empty">>)
    ELSE IF method = "evaluate_response" /\ "reading_text" \in blank
    THEN ScoringError(<<"Reading text cannot be empty when provided">>)
    ELSE IF method = "evaluate_response" /\ "lecture_script" \in blank
    THEN ScoringError(<<"Lecture script cannot be empty">>)
    ELSE IF "question" \in blank THEN ScoringError(<<"Question cannot be empty">>)
    ELSE NoException

\* The route handlers, lines 170-178 and 419-427: request.problem_id must have
\* the format of a UUID and be the id of a PracticeSession row.
NotAUuid == "not-a-uuid"
ProblemIds == Sessions \cup {NotAUuid}
session_lookup_error(problem_id, rows) ==
    IF problem_id \notin Sessions
    THEN HTTPException(400, <<"Invalid problem_id format">>)
    ELSE IF rows[problem_id].state \notin {"generated", "scored"}
    THEN HTTPException(404, <<"Practice session not found">>)
    ELSE NoException

\* The client method and the service of a scoring route.
ClientMethodOf(route) ==
    IF route = "evaluate-task1" THEN "score_task1_response" ELSE "score_response"
ServiceMethodOf(route) ==
    IF route = "evaluate-task1" THEN "evaluate_task1_response" ELSE "evaluate_response"

\* The response to an exception raised in the try block of the client method,
\* of the service method, of the route handler.
FailedInClient(route, e) ==
    exception_handler(router_except(route,
        service_except(ServiceMethodOf(route),
            client_method_except(ClientMethodOf(route), e))))
FailedInService(route, e) ==
    exception_handler(router_except(route, service_except(ServiceMethodOf(route), e)))
FailedInRouter(route, e) == exception_handler(router_except(route, e))

\* The response model: an int field with ge=0 and le=4.  Pydantic 1 coerces a
\* float with int(), pydantic 2 accepts only a float without fractional part;
\* NaN is refused by both.
response_model_error(score, pydantic) ==
    IF score.type = "int"
       \/ (score.type = "float" /\ ~score.nan /\ (pydantic = 1 \/ score.tenths % 10 = 0))
    THEN IF int(score).tenths < 0 \/ int(score).tenths > 40
         THEN PlainException("ValidationError", <<"overall_score">>)
         ELSE NoException
    ELSE PlainException("ValidationError", <<"overall_score">>)

\* The scores a route returns: Task 1 has the overall score only.
ReturnedFields(route) ==
    IF route = "evaluate-task1" THEN {"overall_score"} ELSE ScoreFieldNames

\* A request to a scoring route with request.problem_id and inputs of which
\* those of empty are the empty string and those of blank white space only;
\* data is the scoring record the model will reply.  A body the request model
\* refuses is answered with 422 and the handler is not called; the handler
\* answers 400 or 404 unless the id is that of a session.
ScoringRequest(route, problem_id, empty, blank, data, pydantic) ==
    /\ spc = "idle"
    /\ sreq' = [route |-> route, data |-> data, empty |-> empty, blank |-> blank]
    /\ request_problem_id' = problem_id
    /\ committed' = FALSE
    /\ cleanup_calls' = <<>>
    /\ LET v == request_validation_error(route, empty, pydantic)
           e == session_lookup_error(problem_id, sessions)
       IN  IF v # NoException
           THEN /\ sresp' = exception_handler(v)
                /\ spc' = "done"
           ELSE IF e # NoException
           THEN /\ sresp' = FailedInRouter(route, e)
                /\ spc' = "done"
           ELSE /\ sresp' = sresp
                /\ spc' = "inputs"
    /\ UNCHANGED <<sresult, stored>>
    /\ UNCHANGED notScoringVars

\* The service checks its inputs before it calls the client.
ServiceValidatesInputs ==
    /\ spc = "inputs"
    /\ LET e == service_input_error(ServiceMethodOf(sreq.route),
                                    sreq.empty \cup sreq.blank)
       IN  IF e # NoException
           THEN /\ sresp' = FailedInService(sreq.route, e)
                /\ spc' = "done"
           ELSE /\ sresp' = sresp
                /\ spc' = "client"
    /\ UNCHANGED <<sreq, sresult, stored>>
    /\ UNCHANGED flowVars
    /\ UNCHANGED notScoringVars

\* OpenAIClient.score_task1_response / score_response parse and check the reply.
ClientScores ==
    /\ spc = "client"
    /\ LET e == IF sreq.route = "evaluate-task1"
                THEN score_task1_response_check(sreq.data)
                ELSE score_response_check(sreq.data, 1)
       IN  IF e # NoException
           THEN /\ sresp' = FailedInClient(sreq.route, e)
                /\ spc' = "done"
           ELSE /\ sresp' = sresp
                /\ spc' = "service"
    /\ UNCHANGED <<sreq, sresult, stored>>
    /\ UNCHANGED flowVars
    /\ UNCHANGED notScoringVars

\* ScoringService.evaluate_task1_response returns the client's data as it is;
\* evaluate_response returns _parse_scoring_data of it.
ServiceEvaluates ==
    /\ spc = "service"
    /\ IF sreq.route = "evaluate-task1"
       THEN /\ sresult' = [f \in ScoreFieldNames |->
                              IF f = "overall_score" THEN sreq.data[f] ELSE Absent]
            /\ spc' = "store"
            /\ sresp' = sresp
       ELSE LET e == parse_scoring_data_error(sreq.data)
            IN  IF e # NoException
                THEN /\ sresp' = FailedInService(sreq.route, e)
                     /\ spc' = "done"
                     /\ sresult' = sresult
                ELSE /\ sresult' = parse_scoring_data(sreq.data)
                     /\ spc' = "store"
                     /\ sresp' = sresp
    /\ UNCHANGED <<sreq, stored>>
    /\ UNCHANGED flowVars
    /\ UNCHANGED notScoringVars

\* The route handler assigns the scores to the session and commits; a commit
\* that raises leaves the row as it was and ends in the handler's last except
\* clause.  The commit of a session whose row has been deleted since the
\* handler read it raises (the UPDATE matches no row).
RouterStores(commit_ok) ==
    /\ spc = "store"
    /\ IF commit_ok /\ sessions[request_problem_id].state \in {"generated", "scored"}
       THEN /\ stored' = sresult
            /\ committed' = TRUE
            /\ spc' = "cleanup"
            /\ sresp' = sresp
       ELSE /\ sresp' = FailedInRouter(sreq.route,
                                       PlainException("OperationalError", <<"boom-1">>))
            /\ spc' = "done"
            /\ UNCHANGED <<stored, committed>>
    /\ UNCHANGED <<sreq, sresult, request_problem_id, cleanup_calls>>
    /\ UNCHANGED notScoringVars

\* DELETE /api/task1-archive/questions/{question_id}?user_id=...
\* (routers/task1_archive.py lines 198-254): 400 for an id that is no UUID, 404
\* for a user that does not exist and for an id that is not that of a Task 1
\* session of the user; else the row is deleted and committed, and a commit that
\* raises is rolled back and answered with 500.  The sessions of the model are
\* those of SessionOwner.
SessionOwner == "u1"
Users == {"u1", "u2"}
UserIds == Users \cup {"nobody"}
delete_task1_question_error(question_id, user_id, rows, commit_ok) ==
    IF question_id \notin Sessions
    THEN HTTPException(400, <<"Invalid question ID format">>)
    ELSE IF user_id \notin Users THEN HTTPException(404, <<"User not found">>)
    ELSE IF user_id # SessionOwner \/ rows[question_id].task # "task1"
            \/ rows[question_id].state \notin {"generated", "scored"}
    THEN HTTPException(404, <<"Task1 question not found">>)
    ELSE IF ~commit_ok THEN HTTPException(500, <<"Failed to delete Task1 question">>)
    ELSE NoException
\* The requests: every id for the owner, every user for one id, and a commit
\* that raises.
DeleteRequests ==
    {[question_id |-> id, user_id |-> SessionOwner, commit_ok |-> TRUE] : id \in ProblemIds}
    \cup {[question_id |-> "s1", user_id |-> user_id, commit_ok |-> TRUE] :
             user_id \in UserIds}
    \cup {[question_id |-> "s1", user_id |-> SessionOwner, commit_ok |-> FALSE]}
DeletedSession == [task |-> "task1", state |-> "deleted"]
DeleteTask1Question(question_id, user_id, commit_ok) ==
    /\ LET e == delete_task1_question_error(question_id, user_id, sessions, commit_ok)
       IN  IF e # NoException
           THEN /\ archive_resp' = exception_handler(e)
                /\ sessions' = sessions
           ELSE /\ archive_resp' =
                       JSONResponse(200,
                                    [message |-> <<"Task1 question deleted successfully">>],
                                    NoHeaders)
                /\ sessions' = [sessions EXCEPT ![question_id] = DeletedSession]
    /\ UNCHANGED <<fs, locked, mtime, now, workers, sweep>>
    /\ UNCHANGED notArchiveNorCleanupVars

\* schedule_audio_cleanup, lines 72-93: the path it derives from the session id
\* and what it returns for the state of that path (cleanup_audio_file when the
\* path exists, True when it does not).
AudioFileOfOtherSession(session_id) ==
    LecturePath(CHOOSE id \in Sessions : id # session_id)
schedule_audio_cleanup_path(session_id) == LecturePath(session_id)
schedule_audio_cleanup(state, is_locked) ==
    IF state = "absent" THEN TRUE
    ELSE IF state # "file" THEN FALSE
    ELSE ReturnAfterUnlink(Unlink(state, is_locked))

\* The route handler calls schedule_audio_cleanup(request.problem_id) and drops
\* what it returns (routers/scoring.py lines 207 and 456).
RouterSchedulesCleanup ==
    /\ spc = "cleanup"
    /\ LET audio_file == schedule_audio_cleanup_path(request_problem_id)
           ret == schedule_audio_cleanup(fs[audio_file], audio_file \in locked)
       IN  /\ fs' = IF ret /\ fs[audio_file] = "file"
                     THEN [fs EXCEPT ![audio_file] = "absent"] ELSE fs
           /\ mtime' = IF ret /\ fs[audio_file] = "file"
                        THEN [mtime EXCEPT ![audio_file] = 0] ELSE mtime
           /\ cleanup_calls' = Append(cleanup_calls,
                                      [audio_file |-> audio_file, ret |-> ret,
                                       after_commit |-> committed])
    /\ spc' = "respond"
    /\ UNCHANGED <<sreq, sresult, stored, sresp, request_problem_id, committed>>
    /\ UNCHANGED <<locked, now, sessions, workers, sweep>>
    /\ UNCHANGED notScoringNorCleanupVars

\* improvement_tips: List[str] of the response models refuses a value that is
\* no list of strings.
is_list_of_str(value) ==
    value.type = "list" /\ \A i \in DOMAIN value.items : value.items[i].type = "str"

\* The response of a route whose result has been committed: its response model
\* built from the result (the scores and result.get("improvement_tips", []) or
\* result.improvement_tips), or the failure of building it.
scoring_response(route, scoring_result, data, pydantic) ==
    LET bad == {f \in ReturnedFields(route) :
                  response_model_error(scoring_result[f], pydantic) # NoException}
    IN  IF bad # {} \/ ~is_list_of_str(get_list(data, "improvement_tips"))
        THEN FailedInRouter(route, PlainException("ValidationError", <<"overall_score">>))
        ELSE JSONResponse(200, [f \in ReturnedFields(route) |-> int(scoring_result[f])],
                          NoHeaders)

\* The route handler builds its response model from the result.
RouterResponds(pydantic) ==
    /\ spc = "respond"
    /\ sresp' = scoring_response(sreq.route, sresult, sreq.data, pydantic)
    /\ spc' = "done"
    /\ UNCHANGED <<sreq, sresult, stored>>
    /\ UNCHANGED flowVars
    /\ UNCHANGED notScoringVars

\* The replies of the model: every value for the overall score, together with
\* good values for the other scores or with one of them fractional, out of
\* range or missing.
ComponentScoreValues == {IntScore(3), FloatScore(39), IntScore(5), Absent}
ScoreChoices ==
    {[f \in ScoreFieldNames |->
         IF f = "overall_score" THEN overall ELSE IF f = field THEN score ELSE IntScore(3)] :
        overall \in ScoreValues, field \in ScoreFieldNames \ {"overall_score"},
        score \in ComponentScoreValues}
\* A reply that passes every check, and the replies that differ from it in the
\* scores, or in the feedback texts and the tips.
GoodScores == [f \in ScoreFieldNames |-> IntScore(3)]
GoodFeedback == [f \in FeedbackFieldNames |-> JsonStr("feedback")]
GoodTips == JsonList(<<JsonStr("tip")>>)
FeedbackValues == {JsonStr("feedback"), JsonStr(""), JsonAbsent}
TipsValues ==
    {GoodTips, JsonList(<<>>), JsonStr("tip"),
     JsonList(<<JsonDict("for example", "transition")>>), JsonAbsent}
ScoringData ==
    {Reply(scores, GoodFeedback, GoodTips) : scores \in ScoreChoices}
    \cup {Reply(GoodScores, feedback, improvement_tips) :
             feedback \in [FeedbackFieldNames -> FeedbackValues],
             improvement_tips \in TipsValues}
\* The requests: every reply for a request with good inputs, and every id and
\* every choice of empty inputs for a good reply.
BlankChoices == {{}} \cup {{f} : f \in InputFieldNames} \cup {InputFieldNames}
EmptyChoices == BlankChoices \ {{}}
ScoringRequests ==
    {[route |-> route, problem_id |-> "s1", empty |-> {}, blank |-> {}, data |-> data] :
        route \in ScoringRoutes, data \in ScoringData}
    \cup {[route |-> route, problem_id |-> id, empty |-> {}, blank |-> blank,
            data |-> Reply(GoodScores, GoodFeedback, GoodTips)] :
             route \in ScoringRoutes, id \in ProblemIds, blank \in BlankChoices}
    \cup {[route |-> route, problem_id |-> id, empty |-> empty, blank |-> {},
            data |-> Reply(GoodScores, GoodFeedback, GoodTips)] :
             route \in ScoringRoutes, id \in ProblemIds, empty \in EmptyChoices}

NextScoring ==
    \/ \E id \in Sessions, commit_ok \in BOOLEAN :
          GenerateProblem(id, "task1", FALSE, TRUE, commit_ok)
    \/ \E request \in DeleteRequests :
          DeleteTask1Question(request.question_id, request.user_id, request.commit_ok)
    \/ \E request \in ScoringRequests, pydantic \in PydanticVersions :
          ScoringRequest(request.route, request.problem_id, request.empty, request.blank,
                         request.data, pydantic)
    \/ ServiceValidatesInputs
    \/ ClientScores
    \/ ServiceEvaluates
    \/ \E commit_ok \in BOOLEAN : RouterStores(commit_ok)
    \/ RouterSchedulesCleanup
    \/ \E pydantic \in PydanticVersions : RouterResponds(pydantic)

(***************************************************************************)
(* List-typed fields of a generated record: improvement_tips in            *)
(* ScoringService._parse_scoring_data, highlighted_phrases in               *)
(* ScoringService._parse_model_answer_data, strengths and improvements in   *)
(* OpenAIClient.generate_ai_review.  A JSON value is its type with its      *)
(* items (a list) or its text and category (a string, a phrase object).     *)
(***************************************************************************)
MaxItems == 2

ListFieldNames == {"improvement_tips", "highlighted_phrases", "strengths", "improvements"}
\* The fields of a record an operation looks at: the list-typed fields and the
\* texts of an AI review.
ReviewTextFieldNames == {"specific_suggestions", "score_improvement_tips", "improved_response"}
RecordFieldNames == ListFieldNames \cup ReviewTextFieldNames
NoListFields == [f \in ListFieldNames |-> JsonAbsent]
NoListData == [op |-> "", data |-> [f \in RecordFieldNames |-> JsonAbsent]]
NoListResult == [raised |-> NoException, lists |-> NoListFields]

\* The list-typed fields an operation reads.
ListFieldsOf(op) ==
    CASE op = "parse_scoring_data" -> {"improvement_tips"}
      [] op = "parse_model_answer_data" -> {"highlighted_phrases"}
      [] op = "generate_ai_review" -> {"strengths", "improvements"}
      [] OTHER -> {}

\* _parse_model_answer_data, lines 411-439: a value that is no list is refused;
\* an item that is no object or has no text is skipped, a category that is not
\* one of the three valid ones becomes "example".
valid_categories == {"transition", "example", "conclusion"}
RECURSIVE highlighted_phrases(_)
highlighted_phrases(items) ==
    IF items = <<>> THEN <<>>
    ELSE LET phrase_data == Head(items)
             category == IF phrase_data.category \in valid_categories
                         THEN phrase_data.category ELSE "example"
         IN  IF phrase_data.type = "dict" /\ phrase_data.text # ""
             THEN <<JsonDict(phrase_data.text, category)>> \o highlighted_phrases(Tail(items))
             ELSE highlighted_phrases(Tail(items))
parse_highlighted_phrases_error(data) ==
    IF get_list(data, "highlighted_phrases").type # "list"
    THEN ScoringError(<<"Highlighted phrases must be a list">>)
    ELSE NoException
parse_highlighted_phrases(data) ==
    JsonList(highlighted_phrases(get_list(data, "highlighted_phrases").items))

\* generate_ai_review, lines 1244-1254: a missing field is refused, a value that
\* is no list is wrapped in a list.
review_required_fields ==
    <<"strengths", "improvements", "specific_suggestions", "score_improvement_tips",
      "improved_response">>
RECURSIVE review_missing_field(_, _)
review_missing_field(review_data, i) ==
    IF i > Len(review_required_fields) THEN NoException
    ELSE IF review_data[review_required_fields[i]].type = "absent"
    THEN ExternalAPIError("OpenAI", <<"Missing required field: ", review_required_fields[i]>>)
    ELSE review_missing_field(review_data, i + 1)
ensure_list(value) ==
    IF value.type # "list" THEN JsonList(<<value>>) ELSE value

\* What an operation raises for the record, and the lists it returns otherwise.
list_fields_error(op, data) ==
    CASE op = "parse_scoring_data" -> parse_improvement_tips_error(data)
      [] op = "parse_model_answer_data" -> parse_highlighted_phrases_error(data)
      [] OTHER -> review_missing_field(data, 1)
list_fields(op, data) ==
    [f \in ListFieldNames |->
        CASE f \notin ListFieldsOf(op) -> JsonAbsent
          [] f = "improvement_tips" -> parse_improvement_tips(data)
          [] f = "highlighted_phrases" -> parse_highlighted_phrases(data)
          [] OTHER -> ensure_list(data[f])]

\* The model's reply has been parsed into a record; the operation receives it.
ReceiveRecord(op, data) ==
    /\ lpc \in {"idle", "done"}
    /\ list_data' = [op |-> op, data |-> data]
    /\ list_result' = NoListResult
    /\ lpc' = "parse"
    /\ UNCHANGED notRecordVars

\* The operation validates the list-typed fields of the record.
ParseListFields ==
    /\ lpc = "parse"
    /\ LET e == list_fields_error(list_data.op, list_data.data)
       IN  list_result' = [raised |-> e,
                           lists |-> IF e # NoException THEN NoListFields
                                     ELSE list_fields(list_data.op, list_data.data)]
    /\ lpc' = "done"
    /\ UNCHANGED list_data
    /\ UNCHANGED notRecordVars

\* The values of a list-typed field in a reply: lists of up to MaxItems tips or
\* phrase objects, a singular tip, a singular phrase object, nothing.
ListItems == {JsonStr("tip"), JsonDict("for example", "transition"), JsonDict("in sum", "closing")}
RECURSIVE ItemLists(_)
ItemLists(n) ==
    IF n = 0 THEN {<<>>}
    ELSE ItemLists(n - 1) \cup {Append(l, x) : l \in {m \in ItemLists(n - 1) : Len(m) = n - 1}, x \in ListItems}
JsonValues ==
    {JsonList(items) : items \in ItemLists(MaxItems)} \cup ListItems \cup {JsonAbsent}
ListOps == {"parse_scoring_data", "parse_model_answer_data", "generate_ai_review"}
\* The records of an operation: every choice of values for its list-typed
\* fields in a record that has its other fields, and for an AI review every
\* choice of missing texts beside two good lists.
ReviewTexts ==
    {[f \in ReviewTextFieldNames |-> IF f \in present THEN JsonStr("text") ELSE JsonAbsent] :
        present \in SUBSET ReviewTextFieldNames}
AllReviewTexts == [f \in ReviewTextFieldNames |-> JsonStr("text")]
ReplyRecord(op, values, texts) ==
    [f \in RecordFieldNames |->
        IF f \in ListFieldsOf(op) THEN values[f]
        ELSE IF f \in ReviewTextFieldNames /\ op = "generate_ai_review" THEN texts[f]
        ELSE JsonAbsent]
ListRecords(op) ==
    {ReplyRecord(op, values, AllReviewTexts) : values \in [ListFieldsOf(op) -> JsonValues]}
    \cup (IF op = "generate_ai_review"
          THEN {ReplyRecord(op, [f \in ListFieldsOf(op) |-> JsonList(<<JsonStr("tip")>>)], texts) :
                   texts \in ReviewTexts}
          ELSE {})

NextRecords ==
    \/ \E op \in ListOps : \E data \in ListRecords(op) : ReceiveRecord(op, data)
    \/ ParseListFields

\* The scoring routes with the artifacts the problem generator has written;
\* the replies of the model are a good one, a fractional one, one the client
\* refuses and one without scores.
FlowScoringData ==
    {Reply([f \in ScoreFieldNames |-> score], GoodFeedback, GoodTips) :
        score \in {IntScore(3), FloatScore(39), IntScore(5), Absent}}
    \cup {Reply(GoodScores, GoodFeedback, JsonStr("tip"))}
NextScoringFlow ==
    \/ \E id \in Sessions, task \in {"task1", "task3"}, tts_ok, deletable,
          commit_ok \in BOOLEAN : GenerateProblem(id, task, tts_ok, deletable, commit_ok)
    \/ \E request \in DeleteRequests :
          DeleteTask1Question(request.question_id, request.user_id, request.commit_ok)
    \/ \E route \in ScoringRoutes, id \in ProblemIds,
          inputs \in {<<{}, {}>>, <<{}, {"transcript"}>>, <<{"transcript"}, {}>>},
          data \in FlowScoringData, pydantic \in PydanticVersions :
          ScoringRequest(route, id, inputs[1], inputs[2], data, pydantic)
    \/ ServiceValidatesInputs
    \/ ClientScores
    \/ ServiceEvaluates
    \/ \E commit_ok \in BOOLEAN : RouterStores(commit_ok)
    \/ RouterSchedulesCleanup
    \/ \E pydantic \in PydanticVersions : RouterResponds(pydantic)

(***************************************************************************)
(* The sanitizer: OpenAIClient._clean_json_response.  A text is the        *)
(* sequence of its characters; the markers of a fenced block, written      *)
(* "'''json" and "'''" here with ' for the backquote, are one element      *)
(* each, and "^A" is a control character (chr(1)).                         *)
(***************************************************************************)
MaxLen == 6
Alphabet == {"'''json", "'''", "{", "}", "x", "\n", "^A"}
RawTexts == UNION {[1..n -> Alphabet] : n \in 0..MaxLen}

\* The characters str.strip() removes, and the ones the filter of line 108 removes.
Whitespace == {" ", "\n", "\r", "\t"}
ControlCharacters == {"^A"}
\* The elements a search for "'''" matches: "'''json" begins with it.
StartsWithFence == {"'''", "'''json"}

\* text.strip()
RECURSIVE strip(_)
strip(text) ==
    IF text = <<>> THEN <<>>
    ELSE IF Head(text) \in Whitespace THEN strip(Tail(text))
    ELSE IF text[Len(text)] \in Whitespace THEN strip(SubSeq(text, 1, Len(text) - 1))
    ELSE text

\* text.find(marker, start): the first position from start on that holds one of
\* the elements, 0 when there is none.
find(text, elements, start) ==
    LET hits == {i \in start..Len(text) : text[i] \in elements}
    IN  IF hits = {} THEN 0 ELSE CHOOSE i \in hits : \A j \in hits : i <= j
\* text.rfind(marker)
rfind(text, elements) ==
    LET hits == {i \in 1..Len(text) : text[i] \in elements}
    IN  IF hits = {} THEN 0 ELSE CHOOSE i \in hits : \A j \in hits : i >= j

\* Lines 88-99 with the extraction left out.
KeepFencedText(cleaned) == cleaned

\* Lines 88-99: the content between the first "'''json" and the next "'''".
extract_json_block(cleaned) ==
    LET start_idx == find(cleaned, {"'''json"}, 1)
    IN  IF start_idx = 0 THEN cleaned
        ELSE LET end_idx == find(cleaned, StartsWithFence, start_idx + 1)
             IN  IF end_idx = 0 THEN cleaned
                 ELSE strip(SubSeq(cleaned, start_idx + 1, end_idx - 1))

\* Lines 101-105: a text that starts and ends with "'''" loses its first and its
\* last line when it has more than two lines.
remove_code_block_lines(cleaned) ==
    IF cleaned # <<>> /\ Head(cleaned) \in StartsWithFence /\ cleaned[Len(cleaned)] = "'''"
    THEN LET first == find(cleaned, {"\n"}, 1)
             last == rfind(cleaned, {"\n"})
         IN  IF first # 0 /\ first < last THEN SubSeq(cleaned, first + 1, last - 1)
             ELSE cleaned
    ELSE cleaned

\* Line 108
remove_control_characters(cleaned) ==
    SelectSeq(cleaned, LAMBDA char : char \notin ControlCharacters)

\* Lines 111-121: from the first "{" on, up to the last "}".
trim_to_braces(cleaned) ==
    LET start_idx == find(cleaned, {"{"}, 1)
        from_brace == IF (cleaned = <<>> \/ Head(cleaned) # "{") /\ start_idx # 0
                      THEN SubSeq(cleaned, start_idx, Len(cleaned))
                      ELSE cleaned
        end_idx == rfind(from_brace, {"}"})
    IN  IF (from_brace = <<>> \/ from_brace[Len(from_brace)] # "}") /\ end_idx # 0
        THEN SubSeq(from_brace, 1, end_idx)
        ELSE from_brace

clean_json_response(response) ==
    trim_to_braces(
        remove_control_characters(
            remove_code_block_lines(
                extract_json_block(strip(response)))))

\* _clean_json_response is applied to the reply.
CleanJsonResponse ==
    /\ jpc = "raw"
    /\ cleaned_response' = clean_json_response(gpt_response)
    /\ jpc' = "cleaned"
    /\ UNCHANGED gpt_response
    /\ UNCHANGED notSanitizerVars

NextSanitizer == CleanJsonResponse

(***************************************************************************)
(* Structured generation: OpenAIClient.generate_problem calls call_gpt4,   *)
(* cleans the reply, parses it with json.loads and checks the required     *)
(* fields.  In a reply the element "reading_text" (and so on) stands for   *)
(* the member of that name of a JSON object, "[fields]" for the JSON array *)
(* of the three field names, "'fields'" for a JSON string that holds the   *)
(* three names, "3" for a number and "x" for any other text.               *)
(***************************************************************************)
required_fields == <<"reading_text", "lecture_script", "question">>
RequiredFields == {required_fields[i] : i \in DOMAIN required_fields}

JsonError == [type |-> "JSONDecodeError", names |-> {}]
\* json.loads: whitespace around the tokens is insignificant.
json_loads(text) ==
    LET tokens == SelectSeq(text, LAMBDA c : c \notin Whitespace)
        members == SubSeq(tokens, 2, Len(tokens) - 1)
    IN  IF /\ Len(tokens) >= 2
           /\ tokens[1] = "{"
           /\ tokens[Len(tokens)] = "}"
           /\ \A i \in DOMAIN members : members[i] \in RequiredFields
        THEN [type |-> "dict", names |-> {members[i] : i \in DOMAIN members}]
        ELSE IF tokens = <<"[fields]">> THEN [type |-> "list", names |-> RequiredFields]
        ELSE IF tokens = <<"'fields'">> THEN [type |-> "str", names |-> RequiredFields]
        ELSE IF tokens = <<"3">> THEN [type |-> "int", names |-> {}]
        ELSE JsonError

\* for field in required_fields: if field not in problem_data: raise ...
\* (membership in a dict, a list or a str; a number is not iterable).
RECURSIVE missing_field(_, _)
missing_field(data, i) ==
    IF data.type = "int"
    THEN PlainException("TypeError", <<"argument of type 'int' is not iterable">>)
    ELSE IF i > Len(required_fields) THEN NoException
    ELSE IF required_fields[i] \notin data.names
    THEN ProblemGenerationError(<<"Missing required field: ", required_fields[i]>>)
    ELSE missing_field(data, i + 1)

\* The try block of generate_problem after call_gpt4 has returned (lines 682-691):
\* the exception raised in it, if any.
generate_problem_try(response) ==
    LET data == json_loads(clean_json_response(response))
    IN  IF data = JsonError
        THEN PlainException("JSONDecodeError", <<"Expecting value">>)
        ELSE missing_field(data, 1)

NoReply == [raised |-> NoException, text |-> <<>>]
NoProblemData == [raised |-> NoException, value |-> JsonError]

\* A caller awaits generate_problem for one of the replies of the provider.
GenerateProblemCall ==
    /\ gen_pc \in {"idle", "done"}
    /\ gen_pc' = "call"
    /\ provider_reply' = NoReply
    /\ provider_calls' = 0
    /\ problem_data' = NoProblemData
    /\ UNCHANGED notGenerationVars

\* call_gpt4 returns a text, or raises the ExternalAPIError its body builds.
CallGpt4Returns(reply) ==
    /\ gen_pc = "call"
    /\ provider_calls' = provider_calls + 1
    /\ provider_reply' = reply
    /\ gen_pc' = "parse"
    /\ UNCHANGED problem_data
    /\ UNCHANGED notGenerationVars

\* The rest of generate_problem: the try block and its except clauses.  No
\* clause calls call_gpt4 again.
GenerateProblemEnds ==
    /\ gen_pc = "parse"
    /\ LET e == IF provider_reply.raised # NoException THEN provider_reply.raised
                ELSE generate_problem_try(provider_reply.text)
       IN  problem_data' =
              IF e # NoException
              THEN [raised |-> client_method_except("generate_problem", e),
                    value |-> JsonError]
              ELSE [raised |-> NoException,
                    value |-> json_loads(clean_json_response(provider_reply.text))]
    /\ gen_pc' = "done"
    /\ UNCHANGED <<provider_reply, provider_calls>>
    /\ UNCHANGED notGenerationVars

\* The replies: a JSON document, bare, in a fenced block, in a fenced block
\* followed by a note, or between other text.
RECURSIVE Members(_)
Members(n) ==
    IF n = 0 THEN {<<>>}
    ELSE {IF keep THEN <<required_fields[n]>> \o rest ELSE rest :
             keep \in BOOLEAN, rest \in Members(n - 1)}
Documents ==
    {<<"{">> \o members \o <<"}">> : members \in Members(Len(required_fields))}
        \cup {<<"[fields]">>, <<"'fields'">>, <<"3">>, <<"x", "x">>, <<"{", "x", "}">>}
Wrappings(document) ==
    {document,
     <<"'''json", "\n">> \o document \o <<"\n", "'''">>,
     <<"'''json", "\n">> \o document \o <<"\n", "'''", "\n", "x">>,
     <<"x", "\n">> \o document \o <<"\n", "x">>}
ProviderReplies ==
    {[raised |-> NoException, text |-> text] :
        text \in UNION {Wrappings(document) : document \in Documents}}
        \cup {[raised |-> ExternalAPIError("OpenAI", <<"boom-1">>), text |-> <<>>]}

NextGeneration ==
    \/ GenerateProblemCall
    \/ \E reply \in ProviderReplies : CallGpt4Returns(reply)
    \/ GenerateProblemEnds

(***************************************************************************)
(* HTTPS enforcement: HTTPSRedirectMiddleware.dispatch.                    *)
(***************************************************************************)
EnvironmentValues == {"development", "production", "staging"}
Schemes == {"http", "https"}
Hostnames == {"localhost", "127.0.0.1", "example.com"}
Ports == {0, 8000}
ForwardedProtos == {"", "http", "https"}
Urls == [scheme : Schemes, hostname : Hostnames, port : Ports, path : {"/api/history"}]
HandlerResponses == [status_code : {200, 404}, location : {"none"}, from : {"handler"}]

\* os.getenv(name, default) on the variable ENVIRONMENT
getenv(env, default) == IF env = <<>> THEN default ELSE env[1]

\* request.url.replace(scheme="https")
url_replace_scheme(url, scheme) == [url EXCEPT !.scheme = scheme]

\* RedirectResponse(url=str(https_url), status_code=301)
RedirectResponse(url, status_code) ==
    [status_code |-> status_code, location |-> url, from |-> "redirect"]

\* line 38: development, or a loopback host
skip_enforcement(environment, hostname) ==
    environment = "development" \/ hostname \in {"localhost", "127.0.0.1"}

\* line 45: neither the scheme nor X-Forwarded-Proto says https
NeedsRedirectIgnoringProxy(scheme, forwarded_proto) == scheme # "https"
needs_redirect(scheme, forwarded_proto) == scheme # "https" /\ forwarded_proto # "https"

IdleHttps ==
    [pc |-> "idle", url |-> [scheme |-> "", hostname |-> "", port |-> 0, path |-> ""],
     forwarded_proto |-> "", environment |-> "", handler_calls |-> 0,
     handler_response |-> [status_code |-> 0, location |-> "none", from |-> "none"]]
NoResponse == [status_code |-> 0, location |-> "none", from |-> "none"]

\* The process environment is set (deployment, or monkeypatch.setenv in the tests).
HttpsSetenv(env) ==
    /\ hreq.pc = "idle"
    /\ environ # env
    /\ environ' = env
    /\ UNCHANGED <<hreq, hresp>>
    /\ UNCHANGED notHttpsVars

\* dispatch, lines 34-49: up to the redirect or the await of call_next.
HttpsDispatch(url, forwarded_proto) ==
    /\ hreq.pc = "idle"
    /\ hresp = NoResponse
    /\ LET environment == getenv(environ, "development")
           q == [IdleHttps EXCEPT !.url = url, !.forwarded_proto = forwarded_proto,
                                  !.environment = environment]
       IN  IF skip_enforcement(environment, url.hostname)
           THEN /\ hreq' = [q EXCEPT !.pc = "handler"]
                /\ UNCHANGED hresp
           ELSE IF needs_redirect(url.scheme, forwarded_proto)
           THEN /\ hreq' = [q EXCEPT !.pc = "done"]
                /\ hresp' = RedirectResponse(url_replace_scheme(url, "https"), 301)
           ELSE /\ hreq' = [q EXCEPT !.pc = "handler"]
                /\ UNCHANGED hresp
    /\ UNCHANGED environ
    /\ UNCHANGED notHttpsVars

\* lines 39 and 52: return await call_next(request)
HttpsCallNextReturns(response) ==
    /\ hreq.pc = "handler"
    /\ hreq' = [hreq EXCEPT !.pc = "done", !.handler_calls = @ + 1,
                            !.handler_response = response]
    /\ hresp' = response
    /\ UNCHANGED environ
    /\ UNCHANGED notHttpsVars

\* The response has been sent.
HttpsResponseSent ==
    /\ hreq.pc = "done"
    /\ hreq' = IdleHttps
    /\ hresp' = NoResponse
    /\ UNCHANGED environ
    /\ UNCHANGED notHttpsVars

(***************************************************************************)
(* Specifications.                                                         *)
(***************************************************************************)
\* The state after construction: an empty rate limiter of any capacity, a client
\* with no call in progress and an audio directory without artifacts.
Init ==
    /\ clock = 0
    /\ capacity \in 1..MaxCapacity
    /\ request_history = [k \in Identities |-> <<>>]
    /\ reqs = [r \in Slots |-> IdleReq]
    /\ running = 0
    /\ served = 0
    /\ admitted = [k \in Identities |-> <<>>]
    /\ wasRejected = {}
    /\ rejectedAt = [k \in Identities |-> NoHeader]
    /\ call = NoCall
    /\ cpc = "idle"
    /\ attempts = 0
    /\ invocations = 0
    /\ waits = <<>>
    /\ result = NoResult
    /\ fs = [p \in AllPaths |-> IF p = StorageDir THEN "dir" ELSE "absent"]
    /\ locked = {}
    /\ mtime = [p \in AllPaths |-> 0]
    /\ now = 0
    /\ sessions = [id \in Sessions |-> [task |-> "task1", state |-> "none"]]
    /\ workers = [w \in WorkerIds |-> IdleWorker]
    /\ sweep = IdleSweep
    /\ environ = <<>>
    /\ hreq = IdleHttps
    /\ hresp = NoResponse
    /\ efail = NoFailure
    /\ eexc = NoException
    /\ echain = <<>>
    /\ eresp = NoErrorResponse
    /\ sreq = NoScoringRequest
    /\ spc = "idle"
    /\ sresult = NoScores
    /\ stored = NoScores
    /\ sresp = NoErrorResponse
    /\ gpt_response = <<>>
    /\ cleaned_response = <<>>
    /\ jpc = "raw"
    /\ list_data = NoListData
    /\ list_result = NoListResult
    /\ lpc = "idle"
    /\ exc_args = NoExcArgs
    /\ raised_exc = NoException
    /\ retry_state = NoRetryState
    /\ slept = <<>>
    /\ request_problem_id = "s1"
    /\ committed = FALSE
    /\ cleanup_calls = <<>>
    /\ provider_reply = NoReply
    /\ gen_pc = "idle"
    /\ provider_calls = 0
    /\ problem_data = NoProblemData
    /\ archive_resp = NoErrorResponse

\* The same, with the default of one admission for the limiter that stays idle.
InitIdleLimiter ==
    /\ clock = 0
    /\ capacity = 1
    /\ request_history = [k \in Identities |-> <<>>]
    /\ reqs = [r \in Slots |-> IdleReq]
    /\ running = 0
    /\ served = 0
    /\ admitted = [k \in Identities |-> <<>>]
    /\ wasRejected = {}
    /\ rejectedAt = [k \in Identities |-> NoHeader]
    /\ call = NoCall
    /\ cpc = "idle"
    /\ attempts = 0
    /\ invocations = 0
    /\ waits = <<>>
    /\ result = NoResult
    /\ fs = [p \in AllPaths |-> IF p = StorageDir THEN "dir" ELSE "absent"]
    /\ locked = {}
    /\ mtime = [p \in AllPaths |-> 0]
    /\ now = 0
    /\ sessions = [id \in Sessions |-> [task |-> "task1", state |-> "none"]]
    /\ workers = [w \in WorkerIds |-> IdleWorker]
    /\ sweep = IdleSweep
    /\ environ = <<>>
    /\ hreq = IdleHttps
    /\ hresp = NoResponse
    /\ efail = NoFailure
    /\ eexc = NoException
    /\ echain = <<>>
    /\ eresp = NoErrorResponse
    /\ sreq = NoScoringRequest
    /\ spc = "idle"
    /\ sresult = NoScores
    /\ stored = NoScores
    /\ sresp = NoErrorResponse
    /\ gpt_response = <<>>
    /\ cleaned_response = <<>>
    /\ jpc = "raw"
    /\ list_data = NoListData
    /\ list_result = NoListResult
    /\ lpc = "idle"
    /\ exc_args = NoExcArgs
    /\ raised_exc = NoException
    /\ retry_state = NoRetryState
    /\ slept = <<>>
    /\ request_problem_id = "s1"
    /\ committed = FALSE
    /\ cleanup_calls = <<>>
    /\ provider_reply = NoReply
    /\ gen_pc = "idle"
    /\ provider_calls = 0
    /\ problem_data = NoProblemData
    /\ archive_resp = NoErrorResponse

InitBackoff ==
    /\ clock = 0
    /\ capacity = 1
    /\ request_history = [k \in Identities |-> <<>>]
    /\ reqs = [r \in Slots |-> IdleReq]
    /\ running = 0
    /\ served = 0
    /\ admitted = [k \in Identities |-> <<>>]
    /\ wasRejected = {}
    /\ rejectedAt = [k \in Identities |-> NoHeader]
    /\ call = NoCall
    /\ cpc = "idle"
    /\ attempts = 0
    /\ invocations = 0
    /\ waits = <<>>
    /\ result = NoResult
    /\ fs = [p \in AllPaths |-> IF p = StorageDir THEN "dir" ELSE "absent"]
    /\ locked = {}
    /\ mtime = [p \in AllPaths |-> 0]
    /\ now = 0
    /\ sessions = [id \in Sessions |-> [task |-> "task1", state |-> "none"]]
    /\ workers = [w \in WorkerIds |-> IdleWorker]
    /\ sweep = IdleSweep
    /\ environ = <<>>
    /\ hreq = IdleHttps
    /\ hresp = NoResponse
    /\ efail = NoFailure
    /\ eexc = NoException
    /\ echain = <<>>
    /\ eresp = NoErrorResponse
    /\ sreq = NoScoringRequest
    /\ spc = "idle"
    /\ sresult = NoScores
    /\ stored = NoScores
    /\ sresp = NoErrorResponse
    /\ gpt_response = <<>>
    /\ cleaned_response = <<>>
    /\ jpc = "raw"
    /\ list_data = NoListData
    /\ list_result = NoListResult
    /\ lpc = "idle"
    /\ exc_args = NoExcArgs
    /\ raised_exc = NoException
    /\ retry_state \in [kind : Kinds, attempt_number : 1..MaxAttemptNumber]
    /\ slept = <<>>
    /\ request_problem_id = "s1"
    /\ committed = FALSE
    /\ cleanup_calls = <<>>
    /\ provider_reply = NoReply
    /\ gen_pc = "idle"
    /\ provider_calls = 0
    /\ problem_data = NoProblemData
    /\ archive_resp = NoErrorResponse

\* The same, with a raw reply for the sanitizer.
InitSanitizer ==
    /\ clock = 0
    /\ capacity = 1
    /\ request_history = [k \in Identities |-> <<>>]
    /\ reqs = [r \in Slots |-> IdleReq]
    /\ running = 0
    /\ served = 0
    /\ admitted = [k \in Identities |-> <<>>]
    /\ wasRejected = {}
    /\ rejectedAt = [k \in Identities |-> NoHeader]
    /\ call = NoCall
    /\ cpc = "idle"
    /\ attempts = 0
    /\ invocations = 0
    /\ waits = <<>>
    /\ result = NoResult
    /\ fs = [p \in AllPaths |-> IF p = StorageDir THEN "dir" ELSE "absent"]
    /\ locked = {}
    /\ mtime = [p \in AllPaths |-> 0]
    /\ now = 0
    /\ sessions = [id \in Sessions |-> [task |-> "task1", state |-> "none"]]
    /\ workers = [w \in WorkerIds |-> IdleWorker]
    /\ sweep = IdleSweep
    /\ environ = <<>>
    /\ hreq = IdleHttps
    /\ hresp = NoResponse
    /\ efail = NoFailure
    /\ eexc = NoException
    /\ echain = <<>>
    /\ eresp = NoErrorResponse
    /\ sreq = NoScoringRequest
    /\ spc = "idle"
    /\ sresult = NoScores
    /\ stored = NoScores
    /\ sresp = NoErrorResponse
    /\ gpt_response \in RawTexts
    /\ cleaned_response = <<>>
    /\ jpc = "raw"
    /\ list_data = NoListData
    /\ list_result = NoListResult
    /\ lpc = "idle"
    /\ exc_args = NoExcArgs
    /\ raised_exc = NoException
    /\ retry_state = NoRetryState
    /\ slept = <<>>
    /\ request_problem_id = "s1"
    /\ committed = FALSE
    /\ cleanup_calls = <<>>
    /\ provider_reply = NoReply
    /\ gen_pc = "idle"
    /\ provider_calls = 0
    /\ problem_data = NoProblemData
    /\ archive_resp = NoErrorResponse

NextLimiter ==
    \/ \E r \in Slots, request \in Requests : Dispatch(r, request)
    \/ \E r \in Slots : Record(r)
    \/ \E r \in Slots, st \in HandlerStatuses : CallNextReturns(r, st)
    \/ \E r \in Slots : CallNextRaises(r)
    \/ \E r \in Slots : ResponseSent(r)
    \/ \E d \in TickSteps : Tick(d)

SpecLimiter ==
    /\ Init
    /\ [][NextLimiter]_vars

NextClient ==
    \/ \E kind \in Kinds, audio \in AudioInputs, script \in Scripts :
          StartCall(kind, audio, script)
    \/ Attempt
    \/ CallReturns

SpecClient ==
    /\ InitIdleLimiter
    /\ [][NextClient]_vars

NextCleanup ==
    \/ \E id \in Sessions, task \in {"task2", "task3"}, tts_ok, commit_ok \in BOOLEAN :
          \E deletable \in (IF task = "task3" THEN BOOLEAN ELSE {TRUE}) :
              GenerateProblem(id, task, tts_ok, deletable, commit_ok)
    \/ \E problem_id \in Sessions, tts_ok \in BOOLEAN :
          \E open_ok \in (IF LecturePath(problem_id) \in locked THEN BOOLEAN ELSE {TRUE}) :
              GenerateLectureAudio(problem_id, tts_ok, open_ok)
    \/ \E w \in CleanupWorkers, id \in Sessions : ScoreAndScheduleCleanup(w, id)
    \/ \E w \in CleanupWorkers, p \in DirectPaths : DirectCleanup(w, p)
    \/ \E w \in WorkerIds : CleanupExists(w)
    \/ \E w \in WorkerIds : CleanupIsFile(w)
    \/ \E w \in WorkerIds : CleanupUnlink(w)
    \/ \E w \in CleanupWorkers : CleanupReturns(w)
    \/ \E dir \in {StorageDir, MissingDir}, h \in MaxAgeChoices : SweepStart(dir, h)
    \/ \E p \in LecturePaths : SweepStat(p)
    \/ SweepCount
    \/ SweepEnds
    \/ SweepReturns
    \/ CleanupTick

SpecCleanup ==
    /\ InitIdleLimiter
    /\ [][NextCleanup]_vars

NextHttps ==
    \/ \E v \in EnvironmentValues : HttpsSetenv(<<v>>)
    \/ HttpsSetenv(<<>>)
    \/ \E url \in Urls, fp \in ForwardedProtos : HttpsDispatch(url, fp)
    \/ \E response \in HandlerResponses : HttpsCallNextReturns(response)
    \/ HttpsResponseSent

SpecHttps ==
    /\ InitIdleLimiter
    /\ [][NextHttps]_vars

SpecErrors ==
    /\ InitIdleLimiter
    /\ [][NextErrors]_vars

SpecScoring ==
    /\ InitIdleLimiter
    /\ [][NextScoring]_vars

SpecScoringFlow ==
    /\ InitIdleLimiter
    /\ [][NextScoringFlow]_vars

SpecGeneration ==
    /\ InitIdleLimiter
    /\ [][NextGeneration]_vars

SpecSanitizer ==
    /\ InitSanitizer
    /\ [][NextSanitizer]_vars

SpecBackoff ==
    /\ InitBackoff
    /\ [][NextBackoff]_vars

SpecExceptions ==
    /\ InitIdleLimiter
    /\ [][NextExceptions]_vars

SpecRecords ==
    /\ InitIdleLimiter
    /\ [][NextRecords]_vars

(***************************************************************************)
(* Claims about the rate limiter.                                          *)
(***************************************************************************)
\* The admissions of an identity that lie in the 60-second window ending at t.
InWindow(times, t) ==
    Cardinality({i \in DOMAIN times : times[i] > t - window_size /\ times[i] <= t})

\* A dispatch of a non-bypassed request takes its decision in this step.
Decides(r) == reqs[r].pc = "idle" /\ reqs'[r].pc # "idle" /\ ~reqs'[r].bypass

\* C1: a non-bypassed request of an identity is admitted when fewer than `capacity`
\* requests of that identity were admitted in the 60 seconds before it, and is
\* otherwise rejected with status 429, Retry-After = 60 and X-RateLimit-Remaining = 0;
\* the admissions of the other identities play no part.
C1_AdmitExactlyCapacity ==
    [][\A r \in Slots :
          Decides(r) =>
              LET k == reqs'[r].user_id
              IN  IF InWindow(admitted[k], clock) < capacity
                  THEN reqs'[r].pc = "checked" /\ reqs'[r].status # HTTP_429_TOO_MANY_REQUESTS
                  ELSE /\ reqs'[r].pc = "done"
                       /\ reqs'[r].status = HTTP_429_TOO_MANY_REQUESTS
                       /\ reqs'[r].retryAfter = 60
                       /\ reqs'[r].hRemaining = 0]_vars

\* An identity is rejected at capacity while another identity has admissions of its own.
C1_Witness ==
    \E r \in Slots, other \in Identities :
        /\ reqs[r].status = HTTP_429_TOO_MANY_REQUESTS
        /\ reqs[r].retryAfter = 60
        /\ other # reqs[r].user_id
        /\ InWindow(admitted[reqs[r].user_id], reqs[r].current_time) = capacity
        /\ Len(admitted[other]) >= 1

\* C2: under every interleaving of the in-flight requests, the number of admissions
\* of one identity inside any 60-second window never exceeds the capacity.
C2_NeverOverAdmitted ==
    \A k \in Identities : \A i \in DOMAIN admitted[k] :
        InWindow(admitted[k], admitted[k][i]) <= capacity

\* Two requests of one identity are in flight at the same instant with one slot left:
\* one is admitted and the other is rejected.
C2_Witness ==
    \E r1, r2 \in Slots :
        /\ r1 # r2
        /\ reqs[r1].pc = "handler" /\ ~reqs[r1].bypass
        /\ reqs[r1].remaining = 1
        /\ reqs[r2].pc = "done" /\ reqs[r2].status = HTTP_429_TOO_MANY_REQUESTS
        /\ reqs[r1].user_id = reqs[r2].user_id
        /\ reqs[r1].current_time = reqs[r2].current_time

\* C3: a request of an identity whose stored window is full is admitted when the
\* oldest stored timestamp is more than 60 seconds old.
C3_AdmittedAfterAgeOut ==
    [][\A r \in Slots :
          (/\ Decides(r)
           /\ Len(request_history[reqs'[r].user_id]) = capacity
           /\ request_history[reqs'[r].user_id][1] < clock - 60)
          => reqs'[r].pc = "checked"]_vars

\* An identity that was rejected is admitted again once its full window has aged.
C3_Witness ==
    \E r \in Slots :
        /\ reqs[r].pc = "handler" /\ ~reqs[r].bypass
        /\ reqs[r].user_id \in wasRejected
        /\ reqs[r].preLen = capacity
        /\ reqs[r].preOldest < reqs[r].current_time - 60

\* The identity section 4.1 gives a request: the bearer token, else the first hop of
\* the forwarded-for chain, else the peer address, the last two behind "ip:".
BearerToken(q) ==
    IF Len(q.authorization) >= 2 /\ q.authorization[1] = "Bearer "
    THEN SubSeq(q.authorization, 2, Len(q.authorization))
    ELSE <<>>
FirstHop(q) ==
    LET hops == SelectSeq(q.x_forwarded_for, LAMBDA f : f \notin {" ", ","})
    IN  IF hops = <<>> THEN "" ELSE hops[1]
ExpectedIdentity(q) ==
    IF BearerToken(q) # <<>> THEN BearerToken(q)
    ELSE IF FirstHop(q) # "" THEN <<"ip:", FirstHop(q)>>
    ELSE <<"ip:", q.client_host>>

\* C16: the identity of a non-bypassed request is its bearer token when it carries
\* one, else the first hop of X-Forwarded-For, else the peer address; the admission
\* is charged to that identity alone, so requests with one token share one budget
\* whatever their addresses and a request with a token is never charged to its address.
C16_IdentityPrecedence ==
    [][\A r \in Slots :
          /\ Decides(r) => reqs'[r].user_id = ExpectedIdentity(reqs'[r].request)
          /\ (reqs[r].pc = "checked" /\ reqs'[r].pc = "handler") =>
                 LET k == ExpectedIdentity(reqs[r].request)
                 IN  /\ Len(request_history'[k]) = Len(request_history[k]) + 1
                     /\ \A other \in Identities \ {k} :
                            request_history'[other] = request_history[other]
                     /\ BearerToken(reqs[r].request) # <<>> =>
                            k # <<"ip:", reqs[r].request.client_host>>]_vars

\* The part of C16 that holds: the precedence of token, first hop and peer
\* address, and the charge of an admission to the history of that identity alone.
C16_PrecedenceAndSingleCharge ==
    [][\A r \in Slots :
          /\ Decides(r) => reqs'[r].user_id = ExpectedIdentity(reqs'[r].request)
          /\ (reqs[r].pc = "checked" /\ reqs'[r].pc = "handler") =>
                 LET k == ExpectedIdentity(reqs[r].request)
                 IN  /\ Len(request_history'[k]) = Len(request_history[k]) + 1
                     /\ \A other \in Identities \ {k} :
                            request_history'[other] = request_history[other]]_vars

\* C17: a request to /, /health, /docs or /openapi.json is passed to the handler
\* whatever the stored counts are, and leaves the timestamp store as it was.
C17_BypassLeavesStore ==
    [][\A r \in Slots :
          (/\ reqs[r].pc = "idle"
           /\ reqs'[r].pc # "idle"
           /\ reqs'[r].request.path \in {"/", "/health", "/docs", "/openapi.json"})
          => /\ reqs'[r].pc = "handler"
             /\ reqs'[r].status # HTTP_429_TOO_MANY_REQUESTS
             /\ request_history' = request_history]_vars

\* A request to /health is with the handler while the window of its identity is full
\* and another request of that identity has been rejected.
C17_Witness ==
    \E r \in Slots :
        /\ reqs[r].pc = "handler"
        /\ reqs[r].request.path = "/health"
        /\ Len(request_history[ExpectedIdentity(reqs[r].request)]) = capacity
        /\ ExpectedIdentity(reqs[r].request) \in wasRejected

\* C18: every response to a non-bypassed request carries X-RateLimit-Limit,
\* X-RateLimit-Remaining and X-RateLimit-Reset, whatever the handler did; on an
\* admitted request X-RateLimit-Remaining is capacity - count - 1, in 0..capacity-1.
C18_HeadersOnEveryResponse ==
    \A r \in Slots :
        (reqs[r].pc = "done" /\ ~reqs[r].bypass) =>
            /\ reqs[r].hLimit = capacity
            /\ reqs[r].hRemaining # NoHeader
            /\ reqs[r].hReset # NoHeader
            /\ reqs[r].status # HTTP_429_TOO_MANY_REQUESTS =>
                   /\ reqs[r].hRemaining = reqs[r].remaining - 1
                   /\ reqs[r].hRemaining \in 0..(capacity - 1)

\* The timestamps a text of the store holds.
Stamps(history) == {history[i] : i \in DOMAIN history}

\* C25: the timestamps stored for an identity are timestamps of admitted requests
\* of that identity, at most `capacity` of them; a rejected request appends
\* nothing to the store.
C25_StoreHoldsAdmissionsOnly ==
    [][/\ \A k \in Identities :
             /\ Stamps(request_history'[k]) \subseteq Stamps(admitted'[k])
             /\ Len(request_history'[k]) <= capacity
       /\ \A r \in Slots :
             (Decides(r) /\ reqs'[r].status = HTTP_429_TOO_MANY_REQUESTS) =>
                 /\ admitted' = admitted
                 /\ \A k \in Identities :
                        /\ Len(request_history'[k]) <= Len(request_history[k])
                        /\ Stamps(request_history'[k]) \subseteq Stamps(request_history[k])]_vars

\* A request was rejected while the store of its identity holds `capacity`
\* timestamps, all of them admissions.
C25_Witness ==
    \E r \in Slots :
        /\ reqs[r].status = HTTP_429_TOO_MANY_REQUESTS
        /\ Len(request_history[reqs[r].user_id]) = capacity
        /\ Stamps(request_history[reqs[r].user_id]) \subseteq Stamps(admitted[reqs[r].user_id])
        /\ rejectedAt[reqs[r].user_id] = reqs[r].current_time

\* C28: a check at time t drops exactly the stored timestamps older than t - 60; a
\* timestamp equal to t - 60 is retained and counts in that check.
C28_BoundaryTimestampRetained ==
    [][\A r \in Slots :
          Decides(r) =>
              LET k == reqs'[r].user_id
                  kept == SelectSeq(request_history[k], LAMBDA ts : ts >= clock - 60)
              IN  /\ reqs'[r].preLen = Len(request_history[k])
                  /\ IF reqs'[r].pc = "done" THEN request_history'[k] = kept
                     ELSE reqs'[r].remaining = capacity - Len(kept)]_vars

\* C29: a request of an identity that was rejected at time t and has sent nothing
\* since is admitted at time t + 60.
C29_RetryAfterSuffices ==
    [][\A r \in Slots :
          (/\ Decides(r)
           /\ rejectedAt[reqs'[r].user_id] # NoHeader
           /\ clock = rejectedAt[reqs'[r].user_id] + 60
           /\ \A i \in DOMAIN admitted[reqs'[r].user_id] :
                  admitted[reqs'[r].user_id][i] <= rejectedAt[reqs'[r].user_id])
          => reqs'[r].pc = "checked"]_vars

\* An identity that was rejected with a full store is admitted 60 seconds later.
C29_Witness ==
    \E r \in Slots :
        /\ reqs[r].pc = "handler" /\ ~reqs[r].bypass
        /\ rejectedAt[reqs[r].user_id] # NoHeader
        /\ reqs[r].current_time = rejectedAt[reqs[r].user_id] + 60
        /\ reqs[r].preLen = capacity
        /\ \A i \in DOMAIN admitted[reqs[r].user_id] :
               admitted[reqs[r].user_id][i] <= rejectedAt[reqs[r].user_id]
               \/ admitted[reqs[r].user_id][i] = reqs[r].current_time

\* The identities of the requests without a bearer token.
AddressIdentities == {ExpectedIdentity(q) : q \in {x \in Requests : BearerToken(x) = <<>>}}

\* C30: the identity of a request that carries a bearer token is never the
\* identity of a request without token, whatever the token and the address.
C30_TokenNeverAnAddressIdentity ==
    \A r \in Slots :
        (reqs[r].request # NoRequest /\ ~reqs[r].bypass
         /\ BearerToken(reqs[r].request) # <<>>)
        => reqs[r].user_id \notin AddressIdentities

(***************************************************************************)
(* Claims about the exceptions of the taxonomy.                            *)
(***************************************************************************)
Constructed == exc_args # NoExcArgs
Unsupplied ==
    new_exception(exc_args.cls, exc_args.service, exc_args.message, <<>>)

\* C22: every instance of every kind of the taxonomy, the base kind included,
\* has a non-empty user_message; when the raiser supplies none it is a generic
\* localized apology and never the internal message, and when the raiser
\* supplies one it is used verbatim while the internal message and the machine
\* code stay what they are without it.
C22_UserMessageAlwaysApology ==
    Constructed =>
        /\ raised_exc.user_message # <<>>
        /\ raised_exc.message = Unsupplied.message
        /\ raised_exc.error_code = Unsupplied.error_code
        /\ IF exc_args.user_message = <<>>
           THEN /\ raised_exc.user_message # raised_exc.message
                /\ Head(raised_exc.user_message) \notin {Head(t) : t \in InternalTexts}
           ELSE raised_exc.user_message = exc_args.user_message

\* The part of C22 that holds: the same for the seven subclasses.
C22_SubclassUserMessage ==
    (Constructed /\ exc_args.cls # "TOEFLAppException") =>
        /\ raised_exc.message = Unsupplied.message
        /\ raised_exc.error_code = error_code_of(exc_args.cls)
        /\ raised_exc.user_message = IF exc_args.user_message = <<>>
                              THEN default_user_message(exc_args.cls)
                              ELSE exc_args.user_message
        /\ raised_exc.user_message # <<>>
        /\ raised_exc.user_message # raised_exc.message

(***************************************************************************)
(* Claims about the list-typed fields of generated records.                *)
(***************************************************************************)
\* The record lacks nothing but, possibly, what its list-typed fields hold: an
\* AI review has its three texts.
OtherFieldsPresent ==
    list_data.op = "generate_ai_review" =>
        \A f \in ReviewTextFieldNames : list_data.data[f] # JsonAbsent

\* C21: for every list-typed field of a generated record (improvement tips,
\* strengths and improvements, highlighted phrases), a list is kept as it is,
\* a singular value that is no list becomes a one-element list and is not
\* refused, and an empty list of improvement tips makes the operation fail.
C21_ListKeptSingularCoerced ==
    (/\ lpc = "done"
     /\ OtherFieldsPresent
     /\ \A g \in ListFieldsOf(list_data.op) : list_data.data[g] # JsonAbsent) =>
        \A f \in ListFieldsOf(list_data.op) :
            LET value == list_data.data[f]
                required == f = "improvement_tips" /\ value = JsonList(<<>>)
            IN  /\ required => list_result.raised # NoException
                /\ (value.type = "list" /\ ~required) =>
                      /\ list_result.raised = NoException
                      /\ list_result.lists[f] = value
                /\ value.type # "list" =>
                      /\ list_result.raised = NoException
                      /\ list_result.lists[f] = JsonList(<<value>>)

\* The part of C21 the three operations agree on: a list of well-formed items
\* is kept, and no improvement tips make _parse_scoring_data fail.
C21_ListsKeptEmptyTipsRefused ==
    (/\ lpc = "done"
     /\ OtherFieldsPresent
     /\ \A g \in ListFieldsOf(list_data.op) : list_data.data[g].type = "list") =>
        \A f \in ListFieldsOf(list_data.op) :
            LET value == list_data.data[f]
                required == f = "improvement_tips" /\ value = JsonList(<<>>)
                well_formed == f = "highlighted_phrases" =>
                                  \A i \in DOMAIN value.items :
                                      /\ value.items[i].type = "dict"
                                      /\ value.items[i].category \in valid_categories
            IN  IF required THEN list_result.raised # NoException
                ELSE /\ list_result.raised = NoException
                     /\ well_formed => list_result.lists[f] = value

(***************************************************************************)
(* Claims about the OpenAI client.                                         *)
(***************************************************************************)
\* The provider errors the retry policy of section 4.2 names retryable: upstream
\* throttling, request timeout and transient provider errors.
RetryableProviderErrors == {"RateLimitError", "APITimeoutError", "APIError"}

\* C4: a call_gpt4 call whose attempts 1 and 2 fail with a retryable provider error
\* and whose attempt 3 would succeed returns the successful result.
C4_TransientFailuresAbsorbed ==
    (/\ cpc = "done"
     /\ call.kind = "generate"
     /\ call.script[1] \in RetryableProviderErrors
     /\ call.script[2] \in RetryableProviderErrors
     /\ call.script[3] = "ok")
    => result.outcome = "returned"

\* C5: one call never runs its body, nor invokes the provider, more often than the
\* maximum of its kind: generate 3, synthesize 3, transcribe 2.
C5_AttemptsBounded ==
    cpc # "idle" =>
        LET max == IF call.kind = "transcribe" THEN 2 ELSE 3
        IN  attempts <= max /\ invocations <= max

\* A call has ended with an error after a failed invocation of the provider.
C5_Witness ==
    /\ cpc = "done"
    /\ result.outcome = "raised"
    /\ invocations >= 1
    /\ call.script[1] \in RetryableProviderErrors

\* What the retry table calls non-retryable for a kind: a failure that is no
\* instance of the kind's retry types, or empty audio on transcribe.
FirstFailureNonRetryable ==
    \/ call.kind = "transcribe" /\ call.audio = "empty"
    \/ /\ call.script[1] # "ok"
       /\ ~retry_if_exception_type(call.kind, call.script[1])

\* C6: a call whose first attempt fails with a non-retryable error raises after
\* exactly one attempt, with no backoff wait and no second provider invocation.
C6_NonRetryableFailsFast ==
    (cpc # "idle" /\ attempts >= 1 /\ FirstFailureNonRetryable) =>
        /\ cpc = "done"
        /\ result.outcome = "raised"
        /\ attempts = 1
        /\ invocations <= 1
        /\ waits = <<>>

\* A transcription has failed on a format error (an APIError) of the provider.
C6_Witness ==
    /\ cpc = "done"
    /\ call.kind = "transcribe"
    /\ call.audio = "speech"
    /\ call.script[1] = "APIError"
    /\ result.outcome = "raised"
    /\ attempts = 1

\* C7 as stated: every call that does not return raises ExternalAPIError carrying
\* the name of the failing service, for each of the three kinds.
C7_AlwaysExternalAPIError ==
    (cpc = "done" /\ result.outcome = "raised") =>
        result.exc = "ExternalAPIError" /\ result.service # ""

\* C7 as amended: a failing generate or synthesize call raises ExternalAPIError
\* carrying its service name ("OpenAI", "OpenAI TTS"); a failing transcribe call
\* raises SpeechProcessingError, which carries no service name.
C7_TypedErrorPerKind ==
    (cpc = "done" /\ result.outcome = "raised") =>
        CASE call.kind = "generate" ->
               result.exc = "ExternalAPIError" /\ result.service = "OpenAI"
          [] call.kind = "synthesize" ->
               result.exc = "ExternalAPIError" /\ result.service = "OpenAI TTS"
          [] call.kind = "transcribe" ->
               result.exc = "SpeechProcessingError" /\ result.service = ""

\* An error that is no OpenAIError at all has been raised inside generate_speech.
C7_Witness ==
    /\ cpc = "done"
    /\ call.kind = "synthesize"
    /\ call.script[1] = "Exception"
    /\ result.outcome = "raised"
    /\ result.exc = "ExternalAPIError"

\* C23: for each kind, the wait before retry n+1 is exponential in n (the
\* multiplier times 2^(n-1), doubling from one retry to the next while it is
\* between the bounds), never shorter than the kind's base delay and never
\* longer than its max delay (generate and synthesize 2 s to 10 s, transcribe
\* 3 s to 15 s), and the waits of one call are non-decreasing.
BaseDelay(kind) == IF kind = "transcribe" THEN 3 ELSE 2
MaxDelay(kind) == IF kind = "transcribe" THEN 15 ELSE 10
C23_WaitsExponentialWithinBounds ==
    \A n \in DOMAIN slept :
        LET kind == retry_state.kind
            power == 2 ^ (n - 1)
        IN  /\ slept[n] >= BaseDelay(kind)
            /\ slept[n] <= MaxDelay(kind)
            /\ (power >= BaseDelay(kind) /\ power <= MaxDelay(kind)) => slept[n] = power
            /\ power < BaseDelay(kind) => slept[n] = BaseDelay(kind)
            /\ power > MaxDelay(kind) => slept[n] = MaxDelay(kind)
            /\ n > 1 => slept[n - 1] <= slept[n]
C23_Witness ==
    /\ retry_state.kind = "transcribe"
    /\ Len(slept) >= 5
    /\ slept[1] = 3 /\ slept[3] = 4 /\ slept[4] = 8 /\ slept[5] = 15

(***************************************************************************)
(* Claims about the audio cleanup.                                         *)
(***************************************************************************)
\* The audio file the generation of a session has written, if it has written one.
ArtifactOf(id) == GeneratedAudioPath(sessions[id].task, id)

\* The per-session cleanup of the session has returned True.
SessionCleanupSucceeded(id) ==
    \E w \in CleanupWorkers :
        /\ workers[w].pc = "done"
        /\ workers[w].path = LecturePath(id)
        /\ workers[w].ret

\* A sweep that started after the file had passed the maximum age has returned.
SweepPassedOver(p) == sweep.pc = "done" /\ mtime[p] < sweep.cutoff_time

\* C8: every audio artifact a generation path has written is deleted by the
\* per-session cleanup that follows the scoring of its session or by the age-based
\* sweep: once both have run to their end for a deletable artifact, it is gone.
C8_ArtifactDeleted ==
    \A id \in Sessions :
        (/\ sessions[id].state = "scored"
         /\ ArtifactOf(id) \notin locked
         /\ SessionCleanupSucceeded(id)
         /\ SweepPassedOver(ArtifactOf(id)))
        => fs[ArtifactOf(id)] = "absent"

\* The step on which a call of cleanup_audio_file returns.
CleanupReturnStep(w) ==
    /\ workers[w].pc # "done"
    /\ workers'[w].pc = "done"
    /\ workers'[w].entry # "skipped"
\* What the claim says of the call that returns: p is its path, e what the path
\* was when the call was entered, ret what it returns, state what the path is
\* on return.
CleanupResultAsClaimed(p, e, ret, state, is_locked) ==
    /\ ret <=> (p # "" /\ state = "absent")
    /\ (e = "file" /\ ~is_locked) => (ret /\ state = "absent")
    /\ e = "absent" => ret
    /\ (e = "dir" \/ (e = "file" /\ is_locked)) => (~ret /\ state = e)
    /\ e = "empty" => ~ret

\* C9: cleanup_audio_file returns true exactly when the artifact is absent on return:
\* an existing regular file is deleted (true), an absent path gives true, and a
\* directory, an empty path or a permission failure gives false with the path left
\* as it was.
C9_CleanupResult ==
    [][\A w \in WorkerIds :
          CleanupReturnStep(w) =>
              LET p == workers'[w].path
              IN  CleanupResultAsClaimed(p, workers'[w].entry, workers'[w].ret,
                                         IF p = "" THEN "" ELSE fs'[p], p \in locked)]_vars

\* The part of C9 that holds: the same for every call during which no other
\* cleanup has removed the path.
C9_UndisturbedCleanupResult ==
    [][\A w \in WorkerIds :
          (CleanupReturnStep(w) /\ ~workers'[w].interfered) =>
              LET p == workers'[w].path
              IN  CleanupResultAsClaimed(p, workers'[w].entry, workers'[w].ret,
                                         IF p = "" THEN "" ELSE fs'[p], p \in locked)]_vars

\* C10: when two cleanup attempts run on the same existing, deletable artifact,
\* under every interleaving the artifact ends absent and each attempt reports
\* success.
C10_ConcurrentCleanupsSucceed ==
    \A w1, w2 \in WorkerIds :
        (/\ w1 # w2
         /\ workers[w1].pc = "done" /\ workers[w2].pc = "done"
         /\ workers[w1].path = workers[w2].path
         /\ workers[w1].entry = "file" /\ workers[w2].entry = "file"
         /\ workers[w1].interfered \/ workers[w2].interfered
         /\ ~workers[w1].rewritten /\ ~workers[w2].rewritten
         /\ workers[w1].path \notin locked)
        => /\ fs[workers[w1].path] = "absent"
           /\ workers[w1].ret
           /\ workers[w2].ret

\* C24: cleanup_old_audio_files deletes exactly the audio artifacts of the
\* directory whose modification time is older than now - max_age_hours (24 h by
\* default) and leaves every other file in place, returns the number of
\* artifacts it deleted, and returns 0 when the directory does not exist or
\* holds no artifact.
C24_SweepDeletesExactlyTheOld ==
    sweep.pc = "done" =>
        /\ \A p \in sweep.old \ locked : fs[p] = "absent"
        /\ sweep.removed \subseteq sweep.old
        /\ sweep.deleted_count = Cardinality(sweep.removed)
        /\ sweep.present = {} => sweep.deleted_count = 0

\* The part of C24 that holds: the sweep removes only old lecture files, removes
\* every old lecture file that can be deleted and has not been written again
\* meanwhile, never counts more files than it passed to cleanup_audio_file, and
\* returns 0 for a missing or empty directory.
C24_SweepOfLectureFiles ==
    sweep.pc = "done" =>
        /\ \A p \in (sweep.old \cap LecturePaths) \ locked :
              fs[p] = "absent" \/ mtime[p] >= sweep.cutoff_time
        /\ sweep.removed \subseteq sweep.old \cap LecturePaths
        /\ Cardinality(sweep.removed) <= sweep.deleted_count
        /\ sweep.deleted_count <= Cardinality(sweep.old \cap LecturePaths)
        /\ sweep.present = {} => sweep.deleted_count = 0

(***************************************************************************)
(* Claims about the HTTPS enforcement.                                     *)
(***************************************************************************)
\* dispatch has taken its decision about the request in hreq.
HttpsDecided == hreq.pc \in {"handler", "done"}

\* The request was answered with the 301 to its own URL under https, and the
\* handler was not invoked.
Redirected ==
    /\ hreq.pc = "done"
    /\ hresp.status_code = 301
    /\ hresp.location = [scheme |-> "https", hostname |-> hreq.url.hostname,
                         port |-> hreq.url.port, path |-> hreq.url.path]
    /\ hreq.handler_calls = 0

\* The request was passed to the handler, whose response is returned unchanged.
PassedThrough ==
    \/ hreq.pc = "handler"
    \/ /\ hreq.pc = "done"
       /\ hreq.handler_calls = 1
       /\ hresp = hreq.handler_response
       /\ hresp.from = "handler"

Loopback == hreq.url.hostname \in {"localhost", "127.0.0.1"}
PlainTransport == hreq.url.scheme # "https" /\ hreq.forwarded_proto # "https"

\* C14: with ENVIRONMENT set to a value other than development and a host other than
\* localhost/127.0.0.1, the request gets the 301 to the same URL under https without
\* the handler being invoked exactly when neither its scheme nor X-Forwarded-Proto
\* is https; a request to a loopback host, under the development flag, with scheme
\* https or with X-Forwarded-Proto: https is passed on and the handler's response is
\* returned unchanged.
C14_RedirectExactlyWhenPlain ==
    HttpsDecided =>
        /\ (hreq.environment # "development" /\ ~Loopback) =>
               (IF PlainTransport THEN Redirected ELSE PassedThrough)
        /\ (Loopback \/ hreq.environment = "development" \/ ~PlainTransport) =>
               PassedThrough

\* A plain request to a non-loopback host on port 8000 has been redirected under
\* ENVIRONMENT=production.
C14_Witness ==
    /\ Redirected
    /\ hreq.environment = "production"
    /\ hreq.url.hostname = "example.com"
    /\ hreq.url.port = 8000
    /\ hreq.forwarded_proto = "http"

\* C15: unless the host is a loopback host or ENVIRONMENT is explicitly set to
\* development, and in particular when ENVIRONMENT is not set at all, a request
\* whose scheme and X-Forwarded-Proto are both not https gets the 301 and never
\* reaches the handler.  (ENVIRONMENT does not change while a request is in dispatch.)
C15_EnforcedUnlessExplicitlyDevelopment ==
    (HttpsDecided /\ ~Loopback /\ environ # <<"development">> /\ PlainTransport)
    => Redirected
(***************************************************************************)
(* Claims about the failures sent to the client.                           *)
(***************************************************************************)
\* A response has been built for the failure in progress.
Answered == efail # NoFailure /\ eresp # NoErrorResponse

\* The transport statuses the taxonomy allows for a kind of failure.
TaxonomyStatuses(kind) ==
    CASE kind = "AuthenticationError" -> {401}
      [] kind = "ValidationError" -> {400}
      [] kind = "RateLimitExceeded" -> {429}
      [] kind = "ExternalServiceError" -> {503}
      [] kind \in {"GenerationError", "ScoringError", "TranscriptionError"} -> {500, 400}
      [] kind = "NotFound" -> {404}
      [] kind = "RequestValidation" -> {400, 422}
      [] OTHER -> {500}

\* C11: the status of the response to a failed request is the one the taxonomy
\* assigns to the kind of the originating failure, whatever layers caught and
\* re-raised it; a failure of the upstream provider is answered with 503.
C11_StatusOfOriginatingKind ==
    Answered => eresp.status_code \in TaxonomyStatuses(efail.kind)

\* The fragments of the texts that exist inside the server only.
InternalFragments == UNION {{t[i] : i \in DOMAIN t} : t \in InternalTexts}
Fragments(text) == {text[i] : i \in DOMAIN text}
IsEnvelope(body) ==
    /\ DOMAIN body = {"error", "detail"}
    /\ DOMAIN body.error = {"code", "message", "user_message", "details"}
    /\ body.detail = body.error.message
BodyFragments(body) ==
    IF DOMAIN body = {"error", "detail"}
    THEN Fragments(body.detail) \cup Fragments(body.error.message)
         \cup Fragments(body.error.user_message)
    ELSE Fragments(body.detail)

\* C12: no body sent for a failure contains the internal message of the failure
\* or the text of an unexpected exception.
C12_NoInternalTextInBody ==
    Answered => BodyFragments(eresp.body) \cap InternalFragments = {}

\* C13: every failure response, the limiter's rejection included, has the one
\* envelope shape: error with code, message, user_message and details, and a
\* top-level detail equal to error.message.
C13_SingleEnvelopeShape ==
    Answered => IsEnvelope(eresp.body)

(***************************************************************************)
(* Claims about scoring.                                                   *)
(***************************************************************************)
\* An integer score in the closed range 0..4.
IsValidScore(score) == score.type = "int" /\ score.tenths \in {0, 10, 20, 30, 40}
\* The value lies outside 0..4 (5, -1, 4.5, -0.5).
OutOfRange(score) ==
    score.type \in {"int", "float"} /\ (score.tenths < 0 \/ score.tenths > 40)
ScoresOf(route) == ReturnedFields(route)

\* C19: after a scoring operation of either flow every score stored on the
\* session and returned to the caller is an integer in 0..4, the model's score
\* truncated toward zero; a score outside the range makes the operation fail
\* with an error that names the field, and nothing is stored.
C19_StoredScoresAreIntegers ==
    /\ \A f \in ScoreFieldNames :
          stored[f] # Absent => IsValidScore(stored[f]) /\ stored[f] = int(sreq.data[f])
    /\ (spc = "done" /\ sresp.status_code = 200) =>
          \A f \in ScoresOf(sreq.route) :
              IsValidScore(sresp.body[f]) /\ sresp.body[f] = stored[f]
    /\ (spc = "done" /\ \E f \in ScoresOf(sreq.route) : OutOfRange(sreq.data[f])) =>
          /\ sresp.status_code # 200
          /\ stored = NoScores

\* C26: in each scoring flow (Task 1 evaluate, Task 3/4 evaluate) the
\* per-session cleanup is invoked exactly once and only after the commit of the
\* scoring result has succeeded, on the artifact path derived from the id of
\* the session; when scoring or the commit fails it is not invoked and the
\* artifact stays in place; and what the cleanup returns never changes the
\* response of the route.
C26_CleanupOnceAfterCommit ==
    [][/\ Len(cleanup_calls') <= 1
       /\ ~committed' => cleanup_calls' = <<>>
       /\ (committed' /\ spc' \in {"respond", "done"}) =>
             /\ Len(cleanup_calls') = 1
             /\ cleanup_calls'[1].after_commit
             /\ cleanup_calls'[1].audio_file = LecturePath(request_problem_id')
       /\ (spc' # spc /\ spc # "cleanup") => fs' = fs
       /\ (spc = "respond" /\ spc' = "done") =>
             sresp' \in {scoring_response(sreq.route, stored, sreq.data, v) :
                            v \in PydanticVersions}
      ]_vars

\* A Task 3/4 evaluation has answered 200 although the cleanup it invoked
\* after its commit returned False and left the artifact in place.
C26_Witness ==
    /\ spc = "done"
    /\ sreq.route # "evaluate-task1"
    /\ committed
    /\ Len(cleanup_calls) = 1
    /\ ~cleanup_calls[1].ret
    /\ fs[LecturePath(request_problem_id)] = "file"
    /\ sresp.status_code = 200

(***************************************************************************)
(* Claims about structured generation.                                     *)
(***************************************************************************)
\* The reply of the provider can be turned into a valid record: the cleaned
\* text is a JSON object that has every required field.
IsValidRecord(text) ==
    LET data == json_loads(clean_json_response(text))
    IN  data.type = "dict" /\ RequiredFields \subseteq data.names

\* C27: when the text the provider returned cannot be turned into a valid
\* record (it has no JSON braces, or a required field is missing), the
\* operation ends by raising its format error, ProblemGenerationError, and the
\* provider is not invoked again for the operation.
C27_InvalidRecordRaisesWithoutSecondCall ==
    /\ provider_calls <= 1
    /\ (gen_pc = "done" /\ provider_reply.raised = NoException
           /\ ~IsValidRecord(provider_reply.text)) =>
          /\ problem_data.raised.cls = "ProblemGenerationError"
          /\ provider_calls = 1

\* The part of C27 that holds: the provider is invoked once per operation,
\* whatever it returns, and a reply that is no JSON document or is an object
\* without one of the required fields ends in ProblemGenerationError.
C27_ProviderInvokedOnce ==
    /\ provider_calls <= 1
    /\ gen_pc \in {"parse", "done"} => provider_calls = 1
    /\ (gen_pc = "done" /\ provider_reply.raised = NoException) =>
          LET data == json_loads(clean_json_response(provider_reply.text))
          IN  (data.type \in {"JSONDecodeError", "int"}
                  \/ (data.type = "dict" /\ ~(RequiredFields \subseteq data.names))) =>
                 problem_data.raised.cls = "ProblemGenerationError"

(***************************************************************************)
(* Claims about the sanitizer.                                             *)
(***************************************************************************)
\* The first fence-open marker of a text and the next fence-close marker after it.
FenceOpen(text) == find(text, {"'''json"}, 1)
FenceClose(text) == find(text, StartsWithFence, FenceOpen(text) + 1)
HasFencedBlock(text) == FenceOpen(text) # 0 /\ FenceClose(text) # 0
\* The content between the two, surrounding whitespace trimmed.
FencedContent(text) == strip(SubSeq(text, FenceOpen(text) + 1, FenceClose(text) - 1))
\* A JSON object: it opens with a brace, closes with one, and holds no control character.
IsJsonObject(text) ==
    /\ text # <<>>
    /\ Head(text) = "{"
    /\ text[Len(text)] = "}"
    /\ \A i \in DOMAIN text : text[i] \notin ControlCharacters
\* The text without control characters, from its first "{" to the last "}" after it.
BraceSpan(text) ==
    LET plain == SelectSeq(text, LAMBDA char : char \notin ControlCharacters)
        opening == find(plain, {"{"}, 1)
        rest == IF opening = 0 THEN plain ELSE SubSeq(plain, opening, Len(plain))
        closing == rfind(rest, {"}"})
    IN  IF closing = 0 THEN rest ELSE SubSeq(rest, 1, closing)

\* C20 as stated: for a reply with a fence-open marker and a later fence-close
\* marker the output is the trimmed content between the first fence-open and the
\* next fence-close.
C20_OutputIsFencedContent ==
    (jpc = "cleaned" /\ HasFencedBlock(gpt_response)) =>
        cleaned_response = FencedContent(gpt_response)

\* C20: for a reply with a fence-open marker and a later fence-close marker the
\* output is taken from the trimmed content between the first fence-open and the
\* next fence-close, whatever precedes the one or follows the other: it is that
\* content without control characters, cut to its first "{" and last "}"; when
\* the content is a JSON object the object is returned exactly.
C20_FencedObjectReturnedExactly ==
    (jpc = "cleaned" /\ HasFencedBlock(gpt_response)) =>
        /\ cleaned_response = BraceSpan(FencedContent(gpt_response))
        /\ IsJsonObject(FencedContent(gpt_response)) =>
               cleaned_response = FencedContent(gpt_response)

\* A fenced JSON object with text before the opening and after the closing fence
\* has been cleaned to the object.
C20_Witness ==
    /\ jpc = "cleaned"
    /\ HasFencedBlock(gpt_response)
    /\ FenceOpen(gpt_response) > 1
    /\ FenceClose(gpt_response) < Len(gpt_response)
    /\ gpt_response[FenceClose(gpt_response)] = "'''"
    /\ gpt_response[1] = "x"
    /\ gpt_response[Len(gpt_response)] = "x"
    /\ IsJsonObject(FencedContent(gpt_response))
    /\ cleaned_response = FencedContent(gpt_response)

====
